---- MODULE Spec2Model ----
(***************************************************************************)
(* Authentication / session lifecycle of the PlayKit JavaScript SDK:       *)
(* AuthManager (token state, refresh, ensureValidToken, login flows),      *)
(* DeviceAuthFlowManager (initiate / poll loop / cancel), TokenStorage     *)
(* (persisted record) and the providers' pre-flight token check.           *)
(*                                                                         *)
(* Concurrency model: one JavaScript event loop.  A step of the model is   *)
(* the code a call runs between two real suspension points (a network      *)
(* request, a timer, a Web Crypto operation, a user action).  An await on  *)
(* an already settled promise only hops a microtask and is merged with the *)
(* code that follows it.  Time is counted in minutes; 0 stands for an      *)
(* absent (undefined) number or string, which the code tests by            *)
(* truthiness.                                                             *)
(***************************************************************************)
EXTENDS Integers, FiniteSets, Sequences, TLC

\* ------------------------------------------------------------------ bounds
MaxCalls == 2
MaxTime == 3
MaxTok == 3

\* -------------------------------------------------------- program constants
\* ensureValidToken / isTokenExpiringSoon default threshold: 5 * 60 * 1000 ms
DefaultThreshold == 5
\* pollForToken / startFlow default session lifetime: 600 s
DefaultFlowExpiry == 10
\* DeviceAuthFlowManager.pollInterval: 5000 ms (intervals are in seconds)
DefaultPollInterval == 5
\* the cap of the slow_down backoff: 30000 ms
MaxPollInterval == 30

Calls == 1..MaxCalls
TokIds == 1..MaxTok
GameId == "g1"
OtherGameId == "g2"
GameIds == {GameId, OtherGameId}
\* the lifetime (minutes) of access token k in a server answer: odd tokens
\* are short-lived, even ones outlive the default threshold
Lifetime(k) == IF k % 2 = 1 THEN 1 ELSE 7
Thresholds == {0, DefaultThreshold}

VARIABLES
  config,      \* SDKConfig and environment: [mode, hasWindow, pacing, ...]
  encKey,      \* TokenStorage.encryptionKey present (Web Crypto available)
  now,         \* Date.now()
  authState,   \* AuthManager.authState
  store,       \* backing storage: game id -> persisted AuthState or Absent
  calls,       \* the asynchronous calls: position, locals, result
  mgrs,        \* DeviceAuthFlowManager instances, named by the creating call
  devMgr,      \* AuthManager.deviceAuthFlowManager (0 = null)
  authFlowMgr, \* AuthManager.authFlowManager (0 = null)
  curDevFlow,  \* AuthManager.currentDeviceAuthFlowPromise (0 = null)
  curAuthFlow, \* AuthManager.currentAuthFlowPromise (0 = null)
  issued       \* how many token sets the server has issued so far

vars == <<config, encKey, now, authState, store, calls, mgrs, devMgr,
          authFlowMgr, curDevFlow, curAuthFlow, issued>>

\* ------------------------------------------------------------- data values
Absent == [isAuthenticated |-> FALSE, token |-> 0, tokenType |-> "absent",
           expiresAt |-> 0, refreshToken |-> 0, refreshExpiresAt |-> 0]

\* this.authState = { isAuthenticated: false }
NoAuth == [isAuthenticated |-> FALSE, token |-> 0, tokenType |-> "",
           expiresAt |-> 0, refreshToken |-> 0, refreshExpiresAt |-> 0]

NoData == [tok |-> 0, expires_in |-> 0, refresh_expires_in |-> 0, scope |-> ""]

\* the token answer that carries token set k; its refresh token outlives
\* its access token by a minute
TokenResponse(k) ==
  [tok |-> k, expires_in |-> Lifetime(k),
   refresh_expires_in |-> Lifetime(k) + 1, scope |-> "player:play"]

\* the token answers the server can still give after issuing n token sets:
\* every answer carries a fresh token set
TokenResponses(n) == {TokenResponse(k) : k \in {n + 1} \cap TokIds}

NoRes == [kind |-> "none", code |-> "", msg |-> "", tok |-> 0]
OkRes(tok) == [kind |-> "ok", code |-> "", msg |-> "", tok |-> tok]
\* new PlayKitError(message, code); msg is kept only where the server's
\* description can reach it
ErrResWith(code, msg) == [kind |-> "err", code |-> code, msg |-> msg, tok |-> 0]
ErrRes(code) == ErrResWith(code, "")

NoCall == [op |-> "none", pc |-> "idle", valExp |-> 0,
           unref |-> FALSE, rfail |-> "none", got401 |-> FALSE,
           snap |-> NoAuth,
           ensured |-> FALSE, tokRead |-> 0, method |-> "", mgr |-> 0,
           join |-> 0, sentInit |-> 0, expIn |-> 0, deadline |-> 0,
           sessExp |-> 0, ivl |-> 0, slowed |-> FALSE, cancelled |-> FALSE,
           neterr |-> FALSE,
           init |-> FALSE, sdk |-> "", dev |-> FALSE, logins |-> 0,
           checks |-> 0, owed |-> FALSE, sentRt |-> 0, res |-> NoRes]

\* a DeviceAuthFlowManager: pollTimeoutId names the call whose poll timer
\* was set last (0 = null)
NoMgr == [made |-> FALSE, aborted |-> FALSE, modalOpen |-> FALSE,
          pollTimeoutId |-> 0, pollInterval |-> 0]
NewMgr == [NoMgr EXCEPT !.made = TRUE, !.pollInterval = DefaultPollInterval]

\* ------------------------------------------------- AuthManager predicates
\* a faulty isTokenExpired: a token counts as expired only after its expiry
IsTokenExpiredLate(as, t) ==
  IF as.expiresAt = 0 THEN FALSE ELSE t > as.expiresAt

IsTokenExpired(as, t) ==
  IF as.expiresAt = 0 THEN FALSE ELSE t >= as.expiresAt

\* a faulty isTokenExpiringSoon: every tracked expiry counts as near
IsTokenExpiringAlways(as, th, t) == as.expiresAt # 0

IsTokenExpiringSoon(as, th, t) ==
  IF as.expiresAt = 0 THEN FALSE ELSE t >= as.expiresAt - th

CanRefresh(as, t) ==
  IF as.refreshToken = 0 THEN FALSE
  ELSE IF as.refreshExpiresAt = 0 THEN TRUE
  ELSE t < as.refreshExpiresAt

\* the authState literal built from a token answer (refreshToken,
\* executeDeviceAuthFlow, pollDeviceAuth); an absent lifetime makes
\* Date.now() + undefined * 1000 = NaN, which every check reads as absent (0)
NewAuthState(data, t) ==
  [isAuthenticated |-> TRUE, token |-> data.tok,
   tokenType |-> IF data.scope = "developer:full" THEN "developer" ELSE "player",
   expiresAt |-> IF data.expires_in = 0 THEN 0 ELSE t + data.expires_in,
   refreshToken |-> data.tok,
   refreshExpiresAt |-> IF data.refresh_expires_in = 0 THEN 0
                        ELSE t + data.refresh_expires_in]

\* a faulty logout: the token stays in memory
LogoutKeepsToken == [NoAuth EXCEPT !.token = 1]

\* logout(): the state and the record it leaves
LogoutState == NoAuth

\* a faulty clearAuthState: the record stays
ClearNothing(st, g) == st

ClearAuthState(st, g) == [st EXCEPT ![g] = Absent]
\* a faulty setItem: nothing is written
SetNothing(st, g, as) == st

SetItem(st, g, as) == [st EXCEPT ![g] = as]

\* TokenStorage.saveAuthState: TRUE when encrypt and setItem went through,
\* FALSE when crypto.subtle.encrypt rejected or localStorage.setItem threw;
\* the MemoryStorage of server mode never throws
SaveOutcomes == IF config.mode = "server" /\ ~encKey THEN {TRUE} ELSE BOOLEAN

\* AuthManager.isAuthenticated()
IsAuthenticated(as) == as.isAuthenticated

\* ------------------------------------------------------ server answers
\* an answer of the refresh endpoint: status 0 is a failed fetch or an
\* unparsable body; err is the body's error code ("" when it has none)
RefreshAnswers(n) ==
  {[status |-> 200, err |-> "", data |-> d] : d \in TokenResponses(n)}
  \cup {[status |-> 401, err |-> "", data |-> NoData],
        [status |-> 500, err |-> "", data |-> NoData],
        [status |-> 500, err |-> "server_error", data |-> NoData],
        [status |-> 0, err |-> "", data |-> NoData]}
  \cup (IF config.sloppy THEN {[status |-> 200, err |-> "", data |-> NoData]}
        ELSE {})

\* refreshToken: if (response.status === 401)
RefreshTokenInvalid(status) == status = 401

\* refreshToken: the PlayKitError code of a failed answer
RefreshErrorCode(r) ==
  IF r.status = 0 THEN "REFRESH_NETWORK_ERROR"
  ELSE IF RefreshTokenInvalid(r.status) THEN "REFRESH_TOKEN_INVALID"
  ELSE IF r.err = "" THEN "REFRESH_FAILED" ELSE r.err

\* ------------------------------------------------------- continuations
\* a settled call keeps its result and what it observed; its locals are gone
Done(cr, res) ==
  [NoCall EXCEPT !.op = cr.op, !.pc = "done", !.res = res,
                 !.unref = cr.unref, !.rfail = cr.rfail, !.got401 = cr.got401,
                 !.ensured = cr.ensured, !.tokRead = cr.tokRead,
                 !.cancelled = cr.cancelled, !.init = cr.init,
                 !.sdk = cr.sdk, !.dev = cr.dev, !.logins = cr.logins,
                 !.checks = cr.checks, !.owed = cr.owed]

\* the debt of call record cr after code of the call took the session from
\* as0 to as1 and then emitted (emitted) an 'authenticated' or
\* 'unauthenticated' event or none: owed says that the call changed
\* isAuthenticated and has emitted neither event since
Owe(cr, as0, as1, emitted) ==
  [cr EXCEPT !.owed = IF emitted THEN FALSE
                      ELSE IF as0.isAuthenticated # as1.isAuthenticated
                      THEN TRUE ELSE cr.owed]

\* the providers: const token = this.authManager.getToken(); if (!token) throw
ReadToken(cr, as) ==
  IF as.token = 0 THEN Done(cr, ErrRes("NOT_AUTHENTICATED"))
  ELSE [cr EXCEPT !.pc = "api_fetch", !.tokRead = as.token]

\* what follows the settling of ensureValidToken in the calling code
AfterEnsure(cr, ok, code, as) ==
  IF cr.op = "ensureValidToken"
  THEN Done(cr, IF ok THEN OkRes(0) ELSE ErrRes(code))
  ELSE IF ok THEN ReadToken([cr EXCEPT !.ensured = TRUE], as)
       ELSE Done(cr, ErrRes(code))

\* ensureValidToken: try { await this.refreshToken() } catch { ... }
EnsureCatch(cr, ok, code, as, t) ==
  IF ok THEN AfterEnsure(cr, TRUE, "", as)
  ELSE LET cr1 == [cr EXCEPT !.rfail =
                     IF cr.valExp # 0 /\ t >= cr.valExp THEN "expired"
                     ELSE "valid"]
       IN IF IsTokenExpired(as, t) THEN AfterEnsure(cr1, FALSE, code, as)
          ELSE AfterEnsure(cr1, TRUE, "", as)

\* what follows the settling of refreshToken() in the calling code
AfterRefresh(cr0, ok, code, tok, as, t) ==
  LET cr == [cr0 EXCEPT !.sentRt = 0] IN
  IF cr.op = "refreshToken"
  THEN Done(cr, IF ok THEN OkRes(tok) ELSE ErrRes(code))
  ELSE IF cr.op = "initialize"
  THEN IF ok THEN Done(cr, OkRes(0))
       ELSE [cr EXCEPT !.pc = "init_resume", !.snap = NoAuth]
  ELSE EnsureCatch(cr, ok, code, as, t)

\* refreshToken() up to its fetch; sentRt is the refresh_token of the
\* request body
RefreshEnter(cr, as, t) ==
  IF as.refreshToken = 0
  THEN AfterRefresh(cr, FALSE, "NO_REFRESH_TOKEN", 0, as, t)
  ELSE IF as.refreshExpiresAt # 0 /\ t >= as.refreshExpiresAt
  THEN AfterRefresh(cr, FALSE, "REFRESH_TOKEN_EXPIRED", 0, as, t)
  ELSE [cr EXCEPT !.pc = "refresh_fetch", !.sentRt = as.refreshToken]

\* ensureValidToken(thresholdMs) up to its first suspension; valExp and
\* unref record what the call was asked to validate
EnsureEnter(cr, th, as, t, mode) ==
  LET cr1 == [cr EXCEPT !.valExp = as.expiresAt,
                !.unref = /\ as.isAuthenticated /\ as.token # 0
                          /\ as.expiresAt # 0 /\ t >= as.expiresAt
                          /\ \/ as.refreshToken = 0
                             \/ /\ as.refreshExpiresAt # 0
                                /\ t >= as.refreshExpiresAt]
  IN IF mode = "server" THEN AfterEnsure(cr1, TRUE, "", as)
     ELSE IF ~as.isAuthenticated \/ as.token = 0
     THEN AfterEnsure(cr1, TRUE, "", as)
     ELSE IF ~IsTokenExpiringSoon(as, th, t)
     THEN AfterEnsure(cr1, TRUE, "", as)
     ELSE IF CanRefresh(as, t) THEN RefreshEnter(cr1, as, t)
     ELSE IF IsTokenExpired(as, t)
     THEN AfterEnsure(cr1, FALSE, "TOKEN_EXPIRED", as)
     ELSE AfterEnsure(cr1, TRUE, "", as)

\* ------------------------------------------------------------- actions
\* a call slot (and the manager named after it) that nothing refers to
Unused(c) ==
  /\ calls[c].pc \in {"idle", "done"}
  /\ devMgr # c /\ authFlowMgr # c /\ curDevFlow # c /\ curAuthFlow # c
  /\ \A d \in Calls : calls[d].pc \in {"idle", "done"} \/ calls[d].mgr # c

\* no settled call is waiting for its caller to resume and no catch block
\* is waiting to run: promise reactions run as microtasks, before any other
\* task gets its turn
Quiet == \A c \in Calls : calls[c].pc \notin {"done", "init_resume"}

\* a new call takes the lowest unused call slot
FreeSlot(c) ==
  /\ Quiet
  /\ Unused(c)
  /\ \A d \in Calls : d < c => ~Unused(d)

Tick ==
  /\ UNCHANGED issued
  /\ Quiet
  /\ now < MaxTime
  /\ now' = now + 1
  /\ UNCHANGED <<config, encKey, authState, store, calls, mgrs, devMgr,
                 authFlowMgr, curDevFlow, curAuthFlow>>

\* has call c settled towards the application (a call PlayKitSDK.initialize
\* made settles towards initialize, which then goes on)
Settled(c) == calls[c].pc = "done" /\ calls[c].sdk = ""

\* the callers of the settled calls resume; the call slots are free again
Return ==
  /\ UNCHANGED issued
  /\ \E c \in Calls : Settled(c)
  /\ calls' = [c \in Calls |-> IF Settled(c) THEN NoCall ELSE calls[c]]
  /\ UNCHANGED <<config, encKey, now, authState, store, mgrs, devMgr,
                 authFlowMgr, curDevFlow, curAuthFlow>>

\* AuthManager.logout()
Logout ==
  /\ UNCHANGED issued
  /\ Quiet
  /\ authState' = LogoutState
  /\ store' = ClearAuthState(store, GameId)
  /\ UNCHANGED <<config, encKey, now, calls, mgrs, devMgr, authFlowMgr,
                 curDevFlow, curAuthFlow>>

\* AuthManager.refreshToken() is called
RefreshTokenCall(c) ==
  /\ UNCHANGED issued
  /\ FreeSlot(c)
  /\ calls' = [calls EXCEPT ![c] =
                 RefreshEnter([NoCall EXCEPT !.op = "refreshToken"],
                              authState, now)]
  /\ UNCHANGED <<config, encKey, now, authState, store, mgrs, devMgr,
                 authFlowMgr, curDevFlow, curAuthFlow>>

\* AuthManager.ensureValidToken(th) is called
EnsureValidTokenWith(c, th) ==
  /\ UNCHANGED issued
  /\ FreeSlot(c)
  /\ calls' = [calls EXCEPT ![c] =
                 EnsureEnter([NoCall EXCEPT !.op = "ensureValidToken"],
                             th, authState, now, config.mode)]
  /\ UNCHANGED <<config, encKey, now, authState, store, mgrs, devMgr,
                 authFlowMgr, curDevFlow, curAuthFlow>>

\* AuthManager.ensureValidToken(thresholdMs) is called
EnsureValidTokenCall(c) == \E th \in Thresholds : EnsureValidTokenWith(c, th)

\* refreshToken(): the refresh request is answered
RefreshRespond(c) ==
  /\ calls[c].pc = "refresh_fetch"
  /\ Quiet
  /\ \E r \in RefreshAnswers(issued), saved \in SaveOutcomes :
       IF r.status = 200
       THEN LET as == NewAuthState(r.data, now) IN
            /\ authState' = as
            /\ issued' = IF r.data.tok = 0 THEN issued ELSE r.data.tok
            /\ IF encKey
               THEN /\ saved
                    /\ calls' = [calls EXCEPT ![c] =
                                   [Owe(@, authState, as, FALSE) EXCEPT
                                      !.pc = "refresh_save", !.snap = as,
                                      !.sentRt = 0]]
                    /\ store' = store
               ELSE IF saved
               THEN /\ store' = SetItem(store, GameId, as)
                    /\ calls' = [calls EXCEPT ![c] =
                         AfterRefresh(Owe(@, authState, as, TRUE), TRUE, "",
                                      r.data.tok, as, now)]
               ELSE /\ store' = store
                    /\ calls' = [calls EXCEPT ![c] =
                         AfterRefresh(Owe(@, authState, as, FALSE), FALSE,
                                      "REFRESH_NETWORK_ERROR", 0, as, now)]
       ELSE /\ saved
            /\ issued' = issued
            /\ IF RefreshTokenInvalid(r.status)
               THEN /\ authState' = LogoutState
                    /\ store' = ClearAuthState(store, GameId)
                    /\ calls' = [calls EXCEPT ![c] =
                         AfterRefresh([Owe(@, authState, LogoutState, TRUE)
                                         EXCEPT !.got401 = TRUE], FALSE,
                                      RefreshErrorCode(r), 0, LogoutState, now)]
               ELSE /\ authState' = authState
                    /\ store' = store
                    /\ calls' = [calls EXCEPT ![c] =
                         AfterRefresh(@, FALSE, RefreshErrorCode(r), 0,
                                      authState, now)]
  /\ UNCHANGED <<config, encKey, now, mgrs, devMgr, authFlowMgr, curDevFlow,
                 curAuthFlow>>

\* refreshToken(): await this.storage.saveAuthState(...) settles (the
\* encryption finished and setItem ran, or one of them threw)
RefreshSaveDone(c) ==
  /\ UNCHANGED issued
  /\ calls[c].pc = "refresh_save"
  /\ Quiet
  /\ \E saved \in SaveOutcomes :
       IF saved
       THEN /\ store' = SetItem(store, GameId, calls[c].snap)
            /\ calls' = [calls EXCEPT ![c] =
                 AfterRefresh(Owe(@, authState, authState, TRUE), TRUE, "",
                              calls[c].snap.token, authState, now)]
       ELSE /\ store' = store
            /\ calls' = [calls EXCEPT ![c] =
                 AfterRefresh(@, FALSE, "REFRESH_NETWORK_ERROR", 0,
                              authState, now)]
  /\ UNCHANGED <<config, encKey, now, authState, mgrs, devMgr, authFlowMgr,
                 curDevFlow, curAuthFlow>>

\* ------------------------------------------- device authorization flows
\* exchangeJWT: expiresIn || 86400 seconds
DefaultJwtLifetime == 1440

\* answers of the initiate endpoint: expires_in 0 is an absent field
\* and poll_interval 0 an absent field; a server that paces its clients
\* asks for slow polling of its short sessions
InitAnswers ==
  {[ok |-> TRUE, err |-> "", expires_in |-> 0, poll_interval |-> 0],
   [ok |-> TRUE, err |-> "", expires_in |-> 2,
    poll_interval |-> IF config.pacing THEN 40 ELSE 0]}
  \cup {[ok |-> FALSE, err |-> e, expires_in |-> 0, poll_interval |-> 0] :
          e \in {"", "server_error", "fetch_failed"}}

InitErrorCode(a) == IF a.err = "" THEN "INIT_FAILED" ELSE a.err

\* answers of the poll endpoint; "odd" is a 2xx answer whose status is
\* neither pending nor authorized, "neterr" a failed fetch or parse
\* poll_interval is the field of a pending answer (0 = absent); err and desc
\* are the error and error_description fields of a non-2xx answer that is
\* none of slow_down, access_denied, expired_token ("" = absent)
PollAnswers(n) ==
  {[kind |-> "authorized", err |-> "", desc |-> "", data |-> d,
    poll_interval |-> 0] : d \in TokenResponses(n)}
  \cup {[kind |-> k, err |-> "", desc |-> "", data |-> NoData,
         poll_interval |-> 0] :
          k \in {"pending", "odd", "access_denied", "expired_token", "neterr"}}
  \cup (IF config.pacing
        THEN {[kind |-> "slow_down", err |-> "", desc |-> "", data |-> NoData,
               poll_interval |-> 0],
              [kind |-> "pending", err |-> "", desc |-> "", data |-> NoData,
               poll_interval |-> 40]}
        ELSE {})
  \cup {[kind |-> "error", err |-> ed[1], desc |-> ed[2], data |-> NoData,
         poll_interval |-> 0] :
          ed \in {<<"", "">>, <<"server_error", "">>,
                  <<"server_error", "unavailable">>}}

\* error || 'POLL_FAILED', with the code fixed for the two terminal errors
PollCodeDefault(a) == "POLL_FAILED"

PollErrorCode(a) ==
  CASE a.kind = "access_denied" -> "ACCESS_DENIED"
    [] a.kind = "expired_token" -> "EXPIRED"
    [] OTHER -> IF a.err = "" THEN "POLL_FAILED" ELSE a.err

\* pollData.error_description || the default message of the branch
PollErrorMessage(a) ==
  IF a.desc # "" THEN a.desc
  ELSE CASE a.kind = "access_denied" -> "User denied authorization"
         [] a.kind = "expired_token" -> "Session expired"
         [] OTHER -> "Device auth failed"

Min(a, b) == IF a <= b THEN a ELSE b

\* slow_down: Math.min(interval * 2, 30000)
SlowDown(interval) == Min(interval * 2, MaxPollInterval)

\* the poll interval after answer a, from interval i
NextInterval(a, i) ==
  IF a.kind = "slow_down" THEN SlowDown(i)
  ELSE IF a.kind = "pending" /\ a.poll_interval # 0 THEN a.poll_interval
  ELSE i

\* pollForToken keeps its interval in a local, startFlow in the manager's
\* pollInterval field
UsesLocalInterval(cr) == cr.op = "pollDeviceAuth"

\* the delay of the timer call record cr arms next
PollInterval(cr, ms) ==
  IF UsesLocalInterval(cr) THEN cr.ivl ELSE ms[cr.mgr].pollInterval

\* a faulty slot test: the flow in progress is never seen
FlowNeverInProgress(slot) == FALSE

\* startAuthFlow / startDeviceAuthFlow: if (this.current...FlowPromise)
FlowInProgress(slot) == slot # 0

\* DeviceAuthFlowManager.cancel() (and destroy(), which calls it) on
\* manager m: the managers afterwards
CancelMgrs(ms, m) ==
  IF m = 0 THEN ms
  ELSE [ms EXCEPT ![m] = [@ EXCEPT !.aborted = TRUE, !.modalOpen = FALSE,
                                   !.pollTimeoutId = 0]]

\* is call record cr inside the poll loop of manager m
InPollLoop(cr, m) == cr.mgr = m /\ cr.pc \in {"poll_fetch", "poll_timer"}

\* cancel(): clearTimeout(this.pollTimeoutId) removes the pending callback
\* of the loop that set it ("hung": nothing is left to settle its promise);
\* cancelled records which outstanding loops the cancel() call met
CancelCalls(cs, ms, m) ==
  IF m = 0 THEN cs
  ELSE [d \in Calls |->
          IF ~InPollLoop(cs[d], m) THEN cs[d]
          ELSE IF cs[d].pc = "poll_timer" /\ ms[m].pollTimeoutId = d
          THEN [cs[d] EXCEPT !.cancelled = TRUE, !.pc = "hung", !.deadline = 0,
                             !.sessExp = 0, !.ivl = 0, !.slowed = FALSE,
                             !.neterr = FALSE]
          ELSE [cs[d] EXCEPT !.cancelled = TRUE]]

\* a settled flow promise settles its caller and every caller that joined it
SettleAll(cs, c, res) ==
  [d \in Calls |->
     IF d = c \/ (cs[d].pc = "joined" /\ cs[d].join = c)
     THEN Done(cs[d], res) ELSE cs[d]]

\* managers nothing refers to any more are garbage
Collect(ms, cs, dm) ==
  [m \in Calls |->
     IF m = dm \/ \E d \in Calls : cs[d].pc \notin {"idle", "done"} /\ cs[d].mgr = m
     THEN ms[m] ELSE NoMgr]

IsFlowOp(op) == op \in {"startAuthFlow", "startDeviceAuthFlow", "pollDeviceAuth"}

\* a step of call c that settles nothing
Step(c, cr, ms) ==
  /\ calls' = [calls EXCEPT ![c] = cr]
  /\ mgrs' = ms
  /\ UNCHANGED <<config, encKey, now, authState, store, devMgr, authFlowMgr,
                 curDevFlow, curAuthFlow>>

\* the end of executeAuthFlow / executeDeviceAuthFlow / pollDeviceAuth and
\* of the start... wrapper around it: clean-up, slot release, settling
Finish(c, res, cs, ms, as, st) ==
  LET cr == cs[c]
      headlessOk == cr.method = "headless" /\ res.kind = "ok"
      dm == IF headlessOk THEN 0 ELSE devMgr
      cs1 == CancelCalls(SettleAll(cs, c, res), ms, dm)
      dm1 == IF headlessOk THEN devMgr ELSE 0
  IN /\ authState' = as
     /\ store' = st
     /\ mgrs' = Collect(CancelMgrs(ms, dm), cs1, dm1)
     /\ calls' = cs1
     /\ devMgr' = dm1
     /\ authFlowMgr' = IF cr.op = "startAuthFlow"
                          /\ (res.kind = "err" \/ cr.method = "headless")
                       THEN 0 ELSE authFlowMgr
     /\ curDevFlow' = IF cr.op = "startDeviceAuthFlow" THEN 0 ELSE curDevFlow
     /\ curAuthFlow' = IF cr.op = "startAuthFlow" THEN 0 ELSE curAuthFlow
     /\ UNCHANGED <<config, encKey, now>>

\* executeAuthFlow('device'): this.deviceAuthFlowManager.destroy() has no
\* null check, so a manager slot emptied meanwhile turns success into a
\* TypeError caught by the catch block
FlowOkResult(cr, tok) ==
  IF cr.op = "startAuthFlow" /\ cr.method = "device" /\ devMgr = 0
  THEN ErrRes("TypeError") ELSE OkRes(tok)

\* the end of a call that installs a session: a flow cleans up, a plain
\* exchangeJWT just settles
Settle(c, res, cs, ms, as, st) ==
  IF IsFlowOp(cs[c].op) THEN Finish(c, res, cs, ms, as, st)
  ELSE /\ calls' = [cs EXCEPT ![c] = Done(cs[c], res)]
       /\ authState' = as
       /\ store' = st
       /\ mgrs' = ms
       /\ UNCHANGED <<config, encKey, now, devMgr, authFlowMgr, curDevFlow,
                      curAuthFlow>>

\* the flow promise rejects with code
Reject(c, code, cs, ms) ==
  Settle(c, ErrRes(code), cs, ms, authState, store)

\* the flow promise rejects with code and message
RejectWith(c, code, msg, cs, ms) ==
  Settle(c, ErrResWith(code, msg), cs, ms, authState, store)

\* the authState a resolved device flow installs
FlowAuthState(cr, data, t) ==
  IF cr.op = "startAuthFlow"
  THEN [NewAuthState(data, t) EXCEPT !.tokenType = "player"]
  ELSE NewAuthState(data, t)

\* a faulty exchangeJWT without the default lifetime
JwtAuthStateNoDefault(tok, expiresIn, t) ==
  [isAuthenticated |-> TRUE, token |-> tok, tokenType |-> "player",
   expiresAt |-> t + expiresIn, refreshToken |-> 0, refreshExpiresAt |-> 0]

\* exchangeJWT: the authState it installs (no refresh token)
JwtAuthState(tok, expiresIn, t) ==
  [isAuthenticated |-> TRUE, token |-> tok, tokenType |-> "player",
   expiresAt |-> t + (IF expiresIn = 0 THEN DefaultJwtLifetime ELSE expiresIn),
   refreshToken |-> 0, refreshExpiresAt |-> 0]

\* this.authState = {...}; await this.storage.saveAuthState(...); then the
\* rest of the call
Install(c, as, tok, cs, ms) ==
  LET cr == [cs[c] EXCEPT !.snap = as, !.deadline = 0, !.expIn = 0,
                          !.sessExp = 0, !.ivl = 0, !.slowed = FALSE,
                             !.neterr = FALSE]
  IN \E saved \in SaveOutcomes :
       IF encKey
       THEN /\ saved
            /\ authState' = as
            /\ calls' = [cs EXCEPT ![c] =
                 [Owe(cr, authState, as, FALSE) EXCEPT !.pc = "flow_save"]]
            /\ mgrs' = ms
            /\ UNCHANGED <<config, encKey, now, store, devMgr, authFlowMgr,
                           curDevFlow, curAuthFlow>>
       ELSE IF saved
       THEN Settle(c, FlowOkResult(cr, tok),
                   [cs EXCEPT ![c] = Owe(cr, authState, as, TRUE)], ms,
                   as, SetItem(store, GameId, as))
       ELSE Settle(c, ErrRes("SAVE_FAILED"),
                   [cs EXCEPT ![c] = Owe(cr, authState, as, FALSE)], ms,
                   as, store)

\* the flow promise resolves with a token answer
Resolve(c, data, cs, ms) ==
  Install(c, FlowAuthState(cs[c], data, now), data.tok, cs, ms)

\* one run of the poll() closure up to its fetch
PollOnce(c, cr, ms) ==
  IF ms[cr.mgr].aborted
  THEN Reject(c, "CANCELLED", [calls EXCEPT ![c] = cr], ms)
  ELSE IF now >= cr.deadline
  THEN Reject(c, "EXPIRED", [calls EXCEPT ![c] = cr], ms)
  ELSE Step(c, [cr EXCEPT !.pc = "poll_fetch", !.slowed = FALSE,
                          !.neterr = FALSE], ms)

\* AuthManager.startDeviceAuthFlow(options) is called
StartDeviceAuthFlowCall(c) ==
  /\ UNCHANGED issued
  /\ FreeSlot(c)
  /\ LET cr == [NoCall EXCEPT !.op = "startDeviceAuthFlow"] IN
     IF FlowInProgress(curDevFlow)
     THEN /\ calls' = [calls EXCEPT ![c] =
                         [cr EXCEPT !.pc = "joined", !.join = curDevFlow]]
          /\ UNCHANGED <<mgrs, devMgr, curDevFlow>>
     ELSE /\ calls' = [calls EXCEPT ![c] =
                         [cr EXCEPT !.pc = "init_fetch", !.mgr = c,
                                    !.sentInit = 1]]
          /\ mgrs' = Collect([mgrs EXCEPT ![c] = NewMgr], calls', c)
          /\ devMgr' = c
          /\ curDevFlow' = c
  /\ UNCHANGED <<config, encKey, now, authState, store, authFlowMgr,
                 curAuthFlow>>

\* startAuthFlow(m) from its first line to its first suspension, in the
\* call slot c whose record so far is cr0: what it does to the flows
AuthFlowStart(c, cr0, m) ==
  /\ LET cr == [cr0 EXCEPT !.op = "startAuthFlow", !.method = m] IN
     IF FlowInProgress(curAuthFlow)
     THEN /\ calls' = [calls EXCEPT ![c] =
                         [cr EXCEPT !.pc = "joined", !.join = curAuthFlow,
                                    !.method = ""]]
          /\ UNCHANGED <<mgrs, devMgr, authFlowMgr, curAuthFlow>>
     ELSE IF m = "device"
     THEN /\ calls' = [calls EXCEPT ![c] =
                         [cr EXCEPT !.pc = "init_fetch", !.mgr = c,
                                    !.sentInit = 1]]
          /\ mgrs' = Collect([mgrs EXCEPT ![c] = NewMgr], calls', c)
          /\ devMgr' = c
          /\ curAuthFlow' = c
          /\ UNCHANGED authFlowMgr
     ELSE /\ calls' = [calls EXCEPT ![c] = [cr EXCEPT !.pc = "ui_wait"]]
          /\ authFlowMgr' = c
          /\ curAuthFlow' = c
          /\ UNCHANGED <<mgrs, devMgr>>
  /\ UNCHANGED curDevFlow

\* startAuthFlow(m) up to its first suspension, nothing else changing
AuthFlowEnter(c, cr0, m) ==
  /\ UNCHANGED issued
  /\ AuthFlowStart(c, cr0, m)
  /\ UNCHANGED <<config, encKey, now, authState, store>>

\* AuthManager.startAuthFlow(authMethod) is called with authMethod m
StartAuthFlowWith(c, m) ==
  /\ FreeSlot(c)
  /\ AuthFlowEnter(c, NoCall, m)

\* startFlow: (expires_in || 600) seconds
FlowExpiry(expires_in) ==
  IF expires_in = 0 THEN DefaultFlowExpiry ELSE expires_in

\* DeviceAuthFlowManager.startFlow: the initiate request is answered;
\* sessExp records when the session the server declared runs out
InitiateRespond(c) ==
  /\ UNCHANGED issued
  /\ calls[c].pc = "init_fetch"
  /\ Quiet
  /\ \E a \in InitAnswers :
       IF ~a.ok THEN Reject(c, InitErrorCode(a), calls, mgrs)
       ELSE LET m == calls[c].mgr
                ms == IF a.poll_interval = 0 THEN mgrs
                      ELSE [mgrs EXCEPT ![m] =
                              [@ EXCEPT !.pollInterval = a.poll_interval]]
            IN IF config.hasWindow
               THEN Step(c, [calls[c] EXCEPT !.pc = "modal",
                               !.expIn = a.expires_in,
                               !.sessExp = now + FlowExpiry(a.expires_in)],
                         [ms EXCEPT ![m] = [@ EXCEPT !.modalOpen = TRUE]])
               ELSE PollOnce(c, [calls[c] EXCEPT
                                   !.deadline = now + FlowExpiry(a.expires_in),
                                   !.sessExp = now + FlowExpiry(a.expires_in)],
                             ms)

\* startFlow: the user clicks the login button of the modal
UserClickLogin(c) ==
  /\ UNCHANGED issued
  /\ calls[c].pc = "modal"
  /\ Quiet
  /\ mgrs[calls[c].mgr].modalOpen
  /\ PollOnce(c, [calls[c] EXCEPT !.deadline = now + FlowExpiry(calls[c].expIn)],
              mgrs)

\* the poll timer fires: setTimeout(poll, interval) runs poll()
PollTimerFire(c) ==
  /\ UNCHANGED issued
  /\ calls[c].pc = "poll_timer"
  /\ Quiet
  /\ PollOnce(c, calls[c], mgrs)

\* a faulty poll closure whose catch block rejects
PollBranchNetErrEnds(a) ==
  CASE a.kind \in {"pending", "slow_down"} -> "timer"
    [] a.kind = "authorized" -> "resolve"
    [] a.kind = "odd" -> "none"
    [] OTHER -> "reject"

\* the branch of the poll closure that answer a takes: re-arm the timer
\* (pending, slow_down and the catch block), resolve, reject, or none of them
PollBranch(a) ==
  CASE a.kind \in {"pending", "slow_down", "neterr"} -> "timer"
    [] a.kind = "authorized" -> "resolve"
    [] a.kind = "odd" -> "none"
    [] OTHER -> "reject"

\* startFlow / pollForToken: the poll request is answered with a; neterr
\* records that the timer was armed by the catch block
PollAnswered(c, a) ==
  /\ calls[c].pc = "poll_fetch"
  /\ Quiet
  /\   LET m == calls[c].mgr
           i == NextInterval(a, PollInterval(calls[c], mgrs))
           timer ==
             Step(c, [calls[c] EXCEPT
                        !.pc = "poll_timer", !.slowed = (a.kind = "slow_down"),
                        !.neterr = (a.kind = "neterr"),
                        !.ivl = IF UsesLocalInterval(calls[c]) THEN i ELSE 0],
                  [mgrs EXCEPT ![m] =
                     [@ EXCEPT !.pollTimeoutId = c,
                               !.pollInterval =
                                 IF UsesLocalInterval(calls[c]) THEN @ ELSE i]])
       IN /\ issued' = IF a.kind = "authorized" THEN a.data.tok ELSE issued
          /\ CASE PollBranch(a) = "timer" -> timer
               [] PollBranch(a) = "resolve" ->
                    Resolve(c, a.data, calls,
                            IF calls[c].op = "pollDeviceAuth" THEN mgrs
                            ELSE [mgrs EXCEPT ![m] = [@ EXCEPT !.modalOpen = FALSE]])
               [] PollBranch(a) = "none" ->
                    Step(c, [calls[c] EXCEPT !.pc = "stalled", !.deadline = 0,
                                             !.sessExp = 0, !.ivl = 0,
                                             !.slowed = FALSE], mgrs)
               [] PollBranch(a) = "reject" ->
                    RejectWith(c, PollErrorCode(a), PollErrorMessage(a),
                               calls, mgrs)

PollRespond(c) == \E a \in PollAnswers(issued) : PollAnswered(c, a)

\* await this.storage.saveAuthState(...) of a resolved flow settles
FlowSaveDone(c) ==
  /\ UNCHANGED issued
  /\ calls[c].pc = "flow_save"
  /\ Quiet
  /\ \E saved \in SaveOutcomes :
       IF saved
       THEN Settle(c, FlowOkResult(calls[c], calls[c].snap.token),
                   [calls EXCEPT ![c] = Owe(@, authState, authState, TRUE)],
                   mgrs, authState, SetItem(store, GameId, calls[c].snap))
       ELSE Settle(c, ErrRes("SAVE_FAILED"), calls, mgrs, authState, store)

\* AuthManager.cancelDeviceAuthFlow()
CancelDeviceAuthFlow ==
  /\ UNCHANGED issued
  /\ Quiet
  /\ devMgr # 0
  /\ mgrs' = CancelMgrs(mgrs, devMgr)
  /\ calls' = CancelCalls(calls, mgrs, devMgr)
  /\ UNCHANGED <<config, encKey, now, authState, store, devMgr, authFlowMgr,
                 curDevFlow, curAuthFlow>>

\* the options of pollDeviceAuth (0 = absent)
PollOptions ==
  {[timeoutMs |-> 0, pollIntervalMs |-> 0],
   [timeoutMs |-> 2, pollIntervalMs |-> IF config.pacing THEN 40 ELSE 0]}

\* AuthManager.pollDeviceAuth(sessionId, codeVerifier, options) is called:
\* pollForToken resets aborted, sets its deadline from timeoutMs (0 = absent,
\* 600000 ms) and runs poll() once, which reaches its fetch
PollDeviceAuthCall(c) ==
  /\ UNCHANGED issued
  /\ FreeSlot(c)
  /\ \E o \in PollOptions :
       LET to == o.timeoutMs
           m == IF devMgr = 0 THEN c ELSE devMgr
           ms == IF devMgr = 0 THEN [mgrs EXCEPT ![c] = NewMgr] ELSE mgrs
       IN /\ mgrs' = [ms EXCEPT ![m] = [@ EXCEPT !.aborted = FALSE]]
          /\ devMgr' = m
          /\ calls' = [calls EXCEPT ![c] =
                [NoCall EXCEPT !.op = "pollDeviceAuth", !.pc = "poll_fetch",
                   !.mgr = m,
                   !.ivl = IF o.pollIntervalMs = 0 THEN ms[m].pollInterval
                           ELSE o.pollIntervalMs,
                   !.deadline = now + (IF to = 0 THEN DefaultFlowExpiry ELSE to)]]
  /\ UNCHANGED <<config, encKey, now, authState, store, authFlowMgr,
                 curDevFlow, curAuthFlow>>

\* AuthManager.initiateDeviceAuth(scope) is called
InitiateDeviceAuthCall(c) ==
  /\ UNCHANGED issued
  /\ FreeSlot(c)
  /\ calls' = [CancelCalls(calls, mgrs, devMgr) EXCEPT ![c] =
                 [NoCall EXCEPT !.op = "initiateDeviceAuth",
                                !.pc = "initauth_fetch", !.mgr = c,
                                !.sentInit = 1]]
  /\ mgrs' = Collect([CancelMgrs(mgrs, devMgr) EXCEPT ![c] = NewMgr], calls', c)
  /\ devMgr' = c
  /\ UNCHANGED <<config, encKey, now, authState, store, authFlowMgr,
                 curDevFlow, curAuthFlow>>

\* DeviceAuthFlowManager.initiateAuth: the initiate request is answered
InitAuthRespond(c) ==
  /\ UNCHANGED issued
  /\ calls[c].pc = "initauth_fetch"
  /\ Quiet
  /\ \E a \in InitAnswers :
       calls' = [calls EXCEPT ![c] =
                   IF a.ok THEN Done([@ EXCEPT !.expIn = a.expires_in], OkRes(0))
                   ELSE Done(@, ErrRes(InitErrorCode(a)))]
  /\ UNCHANGED <<config, encKey, now, authState, store, mgrs, devMgr,
                 authFlowMgr, curDevFlow, curAuthFlow>>

\* answers of the JWT exchange endpoint: tok 0 is an answer without a
\* player token, expiresIn 0 an absent lifetime
JwtAnswers(n) ==
  {[ok |-> TRUE, err |-> "", tok |-> k, expiresIn |-> e] :
     k \in {0} \cup ({n + 1} \cap TokIds), e \in {0, Lifetime(n + 1)}}
  \cup {[ok |-> FALSE, err |-> e, tok |-> 0, expiresIn |-> 0] :
          e \in {"EXCHANGE_FAILED", "fetch_failed"}}

\* AuthManager.exchangeJWT(jwt) is called
ExchangeJWTCall(c) ==
  /\ UNCHANGED issued
  /\ FreeSlot(c)
  /\ calls' = [calls EXCEPT ![c] =
                 [NoCall EXCEPT !.op = "exchangeJWT", !.pc = "jwt_fetch"]]
  /\ UNCHANGED <<config, encKey, now, authState, store, mgrs, devMgr,
                 authFlowMgr, curDevFlow, curAuthFlow>>

\* AuthFlowManager.startFlow resolves (the 'success' event): executeAuthFlow
\* goes on to exchangeJWT(globalToken)
UiSuccess(c) ==
  /\ UNCHANGED issued
  /\ calls[c].pc = "ui_wait"
  /\ Quiet
  /\ Step(c, [calls[c] EXCEPT !.pc = "jwt_fetch"], mgrs)

\* exchangeJWT: the exchange request is answered with a
JwtAnswered(c, a) ==
  /\ calls[c].pc = "jwt_fetch"
  /\ Quiet
  /\ issued' = IF a.ok /\ a.tok # 0 THEN a.tok ELSE issued
  /\ IF ~a.ok THEN Reject(c, a.err, calls, mgrs)
     ELSE IF a.tok = 0 THEN Reject(c, "NO_PLAYER_TOKEN", calls, mgrs)
     ELSE Install(c, JwtAuthState(a.tok, a.expiresIn, now), a.tok, calls,
                  mgrs)

\* exchangeJWT: the exchange request is answered
JwtRespond(c) == \E a \in JwtAnswers(issued) : JwtAnswered(c, a)

\* ----------------------------------------------------------- initialize
\* configured and injected tokens are token values no server answer carries
DeveloperToken == MaxTok + 1
PlayerToken == MaxTok + 2
PlatformToken == MaxTok + 3

\* this.authState = { isAuthenticated: true, token, tokenType }
ConfiguredAuth(tok, type) ==
  [isAuthenticated |-> TRUE, token |-> tok, tokenType |-> type,
   expiresAt |-> 0, refreshToken |-> 0, refreshExpiresAt |-> 0]

\* initialize() returns or throws without a request in flight, after
\* this.emit('authenticated', ...) or this.emit('unauthenticated')
InitSettle(c, cr, res, as) ==
  /\ UNCHANGED issued
  /\ calls' = [calls EXCEPT ![c] = Done(Owe(cr, authState, as, TRUE), res)]
  /\ authState' = as
  /\ UNCHANGED <<config, encKey, now, store, mgrs, devMgr, authFlowMgr,
                 curDevFlow, curAuthFlow>>

\* detectPlatformToken() behind its guard (0 = null)
DetectPlatformToken ==
  IF config.autoDetectPlatformToken /\ config.hasWindow
  THEN config.platformToken ELSE 0

\* a faulty tail of initialize(): the login flow starts in every mode
InitializeRestLogin(c, cr) == AuthFlowEnter(c, cr, "device")

\* initialize() from  if (this.config.playerJWT)  on.  exchangeJWT and
\* startAuthFlow are its last statements: the call goes on as that call
\* and settles as it settles
InitializeRest(c, cr) ==
  IF config.playerJWT
  THEN /\ UNCHANGED issued
       /\ calls' = [calls EXCEPT ![c] =
                      [cr EXCEPT !.op = "exchangeJWT", !.pc = "jwt_fetch"]]
       /\ UNCHANGED <<config, encKey, now, authState, store, mgrs, devMgr,
                      authFlowMgr, curDevFlow, curAuthFlow>>
  ELSE IF DetectPlatformToken # 0
  THEN InitSettle(c, cr, OkRes(0), ConfiguredAuth(DetectPlatformToken, "player"))
  ELSE IF config.mode = "server"
  THEN InitSettle(c, cr, ErrRes("NOT_AUTHENTICATED"), authState)
  ELSE IF config.hasWindow
  THEN AuthFlowEnter(c, Owe(cr, authState, authState, TRUE),
                     IF config.authMethod = "" THEN "device"
                     ELSE config.authMethod)
  ELSE InitSettle(c, cr, ErrRes("NOT_AUTHENTICATED"), authState)

\* savedState.expiresAt && Date.now() < savedState.expiresAt
SavedStillValid(saved, t) ==
  saved.token # 0 /\ saved.expiresAt # 0 /\ t < saved.expiresAt

\* a faulty guard: initialize() never tries to refresh
SavedNeverRefreshable(saved, t) == FALSE

\* the guard of the refresh attempt of initialize()
SavedRefreshable(saved, t) ==
  saved.token # 0 /\ config.mode # "server" /\ CanRefresh(saved, t)

\* AuthManager.initialize() in call slot c, whose record so far is cr0;
\* storage.initialize() and loadAuthState settle before any other task runs
InitializeEnter(c, cr0) ==
  /\ LET cr == [cr0 EXCEPT !.op = "initialize", !.init = TRUE]
         saved == store[GameId]
     IN IF config.developerToken # 0
        THEN InitSettle(c, cr, OkRes(0),
                        ConfiguredAuth(config.developerToken, "developer"))
        ELSE IF config.playerToken # 0
        THEN InitSettle(c, cr, OkRes(0),
                        ConfiguredAuth(config.playerToken, "player"))
        ELSE IF SavedStillValid(saved, now)
        THEN InitSettle(c, cr, OkRes(0), saved)
        ELSE IF SavedRefreshable(saved, now)
        THEN /\ UNCHANGED issued
             /\ authState' = saved
             /\ calls' = [calls EXCEPT ![c] =
                  RefreshEnter(Owe(cr, authState, saved, FALSE), saved, now)]
             /\ UNCHANGED <<config, encKey, now, store, mgrs, devMgr,
                            authFlowMgr, curDevFlow, curAuthFlow>>
        ELSE InitializeRest(c, cr)

\* AuthManager.initialize() is called
InitializeCall(c) ==
  /\ FreeSlot(c)
  /\ InitializeEnter(c, NoCall)

\* initialize(): the catch block after a failed refresh falls through to
\* the remaining sources
InitializeResume(c) ==
  /\ calls[c].pc = "init_resume"
  /\ InitializeRest(c, [calls[c] EXCEPT !.pc = "idle"])

\* the sessions a login completed at time t leaves behind: a device flow
\* (pollDeviceAuth, startDeviceAuthFlow, startAuthFlow) or a JWT exchange
InstalledSessions(t) ==
  {NewAuthState(r, t) : r \in TokenResponses(0)}
  \cup {JwtAuthState(a.tok, a.expiresIn, t) :
          a \in {b \in JwtAnswers(0) : b.ok /\ b.tok # 0}}

\* --------------------------------------------------------- TokenStorage
\* the backing store at the level of its items.  A key of GameIds stands for
\* playkit_<gameId>_auth; the other keys are the stored encryption key and a
\* key of the page that is none of the SDK's
EncryptionKeyName == "playkit_encryption_key"
ForeignKey == "shared_token"
StoreKeys == GameIds \cup {EncryptionKeyName, ForeignKey}

\* key.startsWith(STORAGE_KEY_PREFIX)
StartsWithPrefix(k) == k \in GameIds \cup {EncryptionKeyName}

SessionFields ==
  {"isAuthenticated", "token", "tokenType", "expiresAt", "refreshToken",
   "refreshExpiresAt"}

\* the encoding of an absent (undefined) field in a session record
AbsentValue(f) ==
  CASE f = "isAuthenticated" -> FALSE
    [] f = "tokenType" -> ""
    [] OTHER -> 0

\* a faulty JSON.stringify that loses the refresh token
StringifyLossy(as) ==
  [f \in {g \in SessionFields \ {"refreshToken"} :
            g = "isAuthenticated" \/ as[g] # AbsentValue(g)} |-> as[f]]

\* JSON.stringify(authState): the text holds the fields that are defined
Stringify(as) ==
  [f \in {g \in SessionFields :
            g = "isAuthenticated" \/ as[g] # AbsentValue(g)} |-> as[f]]

\* JSON.parse(text) as AuthState: a field the text lacks is undefined
JsonParse(text) ==
  [f \in SessionFields |->
     IF f \in DOMAIN text THEN text[f] ELSE AbsentValue(f)]

\* getItem(key) === null
NoItem == [kind |-> "none", key |-> "", intact |-> TRUE,
           text |-> Stringify(Absent), of |-> Absent]

\* a stored string: kind "plain" is text as written, kind "cipher" the
\* base64 of iv + AES-GCM ciphertext under the key named by key ("own" is
\* this TokenStorage's key, "old" a key that is gone); intact FALSE: the
\* string was damaged since; of remembers the session that was saved
PlainItem(as) == [kind |-> "plain", key |-> "", intact |-> TRUE,
                  text |-> Stringify(as), of |-> as]
CipherItem(as, k) == [PlainItem(as) EXCEPT !.kind = "cipher", !.key = k]

\* the exported key that generateNewKey stores under ENCRYPTION_KEY_NAME
KeyItem == [NoItem EXCEPT !.kind = "plain", !.key = "own"]

\* TokenStorage.encrypt(data): plain when there is no key
Encrypt(hasKey, item) ==
  IF ~hasKey THEN item ELSE [item EXCEPT !.kind = "cipher", !.key = "own"]

\* TokenStorage.decrypt(encryptedData): the plain text, or the string it was
\* given when there is no key or when decoding or decryption fails
Decrypt(hasKey, item) ==
  IF ~hasKey THEN item
  ELSE IF item.kind = "cipher" /\ item.key = "own" /\ item.intact
  THEN [item EXCEPT !.kind = "plain", !.key = ""]
  ELSE item

\* does JSON.parse accept the string
Parses(item) == item.kind = "plain" /\ item.intact

\* TokenStorage.loadAuthState(gameId): the value it resolves with, Absent
\* for null; decrypt does not throw and the catch turns what JSON.parse
\* throws into null
LoadAuthState(st, hasKey, g) ==
  IF st[g] = NoItem THEN Absent
  ELSE LET d == Decrypt(hasKey, st[g])
       IN IF Parses(d) THEN JsonParse(d.text) ELSE Absent

\* TokenStorage.saveAuthState(gameId, authState) for the session as
SaveAuthStateCall ==
  /\ UNCHANGED issued
  /\ Quiet
  /\ \E as \in {NoAuth} \cup InstalledSessions(now), saved \in SaveOutcomes :
       /\ authState' = as
       /\ store' = IF saved
                   THEN [store EXCEPT ![GameId] = Encrypt(encKey, PlainItem(as))]
                   ELSE store
  /\ UNCHANGED <<config, encKey, now, calls, mgrs, devMgr, authFlowMgr,
                 curDevFlow, curAuthFlow>>

\* TokenStorage.initialize() on a storage that had no key in memory: the
\* stored key is imported, or a new one is generated and stored, and then
\* what the lost key encrypted can no longer be decrypted
InitializeStorage ==
  /\ UNCHANGED issued
  /\ Quiet
  /\ ~encKey
  /\ encKey' = TRUE
  /\ store' =
       IF store[EncryptionKeyName] = KeyItem THEN store
       ELSE [k \in DOMAIN store |->
               IF k = EncryptionKeyName THEN KeyItem
               ELSE IF store[k].kind = "cipher" /\ store[k].key = "own"
               THEN [store[k] EXCEPT !.key = "old"]
               ELSE store[k]]
  /\ UNCHANGED <<config, now, authState, calls, mgrs, devMgr, authFlowMgr,
                 curDevFlow, curAuthFlow>>

\* TokenStorage.loadAuthState(gameId) is called; the call record keeps what
\* it returned
LoadAuthStateCall(c) ==
  /\ UNCHANGED issued
  /\ FreeSlot(c)
  /\ calls' = [calls EXCEPT ![c] =
       [NoCall EXCEPT !.op = "loadAuthState", !.pc = "done",
                      !.snap = LoadAuthState(store, encKey, GameId),
                      !.res = OkRes(0)]]
  /\ UNCHANGED <<config, encKey, now, authState, store, mgrs, devMgr,
                 authFlowMgr, curDevFlow, curAuthFlow>>

\* something else damages the stored string of a key
Damage ==
  /\ UNCHANGED issued
  /\ Quiet
  /\ \E k \in StoreKeys :
       /\ store[k] # NoItem /\ store[k].intact
       /\ store' = [store EXCEPT ![k] = [@ EXCEPT !.intact = FALSE]]
  /\ UNCHANGED <<config, encKey, now, authState, calls, mgrs, devMgr,
                 authFlowMgr, curDevFlow, curAuthFlow>>

\* a faulty clearAll that removes every key of the backing store
ClearEverything(st) == [k \in DOMAIN st |-> NoItem]

\* TokenStorage.clearAll(): the store it leaves
ClearAll(st) ==
  [k \in DOMAIN st |-> IF StartsWithPrefix(k) THEN NoItem ELSE st[k]]

ClearAllCall ==
  /\ UNCHANGED issued
  /\ Quiet
  /\ store' = ClearAll(store)
  /\ UNCHANGED <<config, encKey, now, authState, calls, mgrs, devMgr,
                 authFlowMgr, curDevFlow, curAuthFlow>>

\* TokenStorage.clearAuthState(gameId) on the stored items
ClearAuthStateCall ==
  /\ UNCHANGED issued
  /\ Quiet
  /\ store' = [store EXCEPT ![GameId] = NoItem]
  /\ UNCHANGED <<config, encKey, now, authState, calls, mgrs, devMgr,
                 authFlowMgr, curDevFlow, curAuthFlow>>

\* new TokenStorage(options) over the same backing store (a reload of the
\* page): encryptionKey = null until initialize() runs
NewTokenStorage ==
  /\ UNCHANGED issued
  /\ Quiet
  /\ encKey
  /\ encKey' = FALSE
  /\ UNCHANGED <<config, now, authState, store, calls, mgrs, devMgr,
                 authFlowMgr, curDevFlow, curAuthFlow>>

\* ------------------------------------------------------------ providers
ProviderMethods ==
  {"chatCompletion", "chatCompletionStream", "chatCompletionWithTools",
   "chatCompletionWithToolsStream", "generateStructured", "generateImages",
   "transcribe"}

\* does the method start with  await this.authManager.ensureValidToken()
CallsEnsureValidToken(m) ==
  m \notin {"chatCompletionWithTools", "chatCompletionWithToolsStream"}

\* a provider method is called
ProviderCall(c) ==
  /\ UNCHANGED issued
  /\ FreeSlot(c)
  /\ \E m \in ProviderMethods :
       calls' = [calls EXCEPT ![c] =
          IF CallsEnsureValidToken(m)
          THEN EnsureEnter([NoCall EXCEPT !.op = m], DefaultThreshold,
                           authState, now, config.mode)
          ELSE ReadToken([NoCall EXCEPT !.op = m], authState)]
  /\ UNCHANGED <<config, encKey, now, authState, store, mgrs, devMgr,
                 authFlowMgr, curDevFlow, curAuthFlow>>

\* the API request of a provider method is answered
ApiRespond(c) ==
  /\ UNCHANGED issued
  /\ calls[c].pc = "api_fetch"
  /\ Quiet
  /\ \E ok \in BOOLEAN :
       calls' = [calls EXCEPT ![c] =
                   Done(@, IF ok THEN OkRes(0) ELSE ErrRes("API_ERROR"))]
  /\ UNCHANGED <<config, encKey, now, authState, store, mgrs, devMgr,
                 authFlowMgr, curDevFlow, curAuthFlow>>

\* ------------------------------------------- PlayerClient and PlayKitSDK
\* the answers to the player-info request (0: fetch rejected)
PlayerInfoStatuses == {200, 401, 403, 500, 0}

\* if (response.status === 401 || response.status === 403)
IsAuthFailure(status) == status \in {401, 403}

\* a faulty getPlayerInfo that leaves the session alone on 401/403
InfoFailureKeepsSession(status, as, st) == [as |-> as, st |-> st]

\* getPlayerInfo on a failure status: the session and the store afterwards
\* (await this.authManager.logout() on 401/403)
InfoFailureSession(status, as, st) ==
  IF IsAuthFailure(status)
  THEN [as |-> LogoutState, st |-> ClearAuthState(st, GameId)]
  ELSE [as |-> as, st |-> st]

\* what getPlayerInfo settles with
InfoResult(status) ==
  IF status = 200 THEN OkRes(0)
  ELSE IF IsAuthFailure(status) THEN ErrRes("AUTH_FAILED")
  ELSE IF status = 0 THEN ErrRes("NETWORK_ERROR")
  ELSE ErrRes("API_ERROR")

\* getPlayerInfo() up to its fetch, in a call record cr
InfoEnter(cr, as) ==
  IF as.token = 0
  THEN Done([cr EXCEPT !.op = "getPlayerInfo"], ErrRes("NOT_AUTHENTICATED"))
  ELSE [cr EXCEPT !.op = "getPlayerInfo", !.pc = "info_fetch",
                  !.tokRead = as.token]

\* PlayerClient.getPlayerInfo() is called
GetPlayerInfoCall(c) ==
  /\ UNCHANGED issued
  /\ FreeSlot(c)
  /\ calls' = [calls EXCEPT ![c] = InfoEnter(NoCall, authState)]
  /\ UNCHANGED <<config, encKey, now, authState, store, mgrs, devMgr,
                 authFlowMgr, curDevFlow, curAuthFlow>>

\* getPlayerInfo(): the player-info request is answered with status
PlayerInfoAnswered(c, status) ==
  /\ calls[c].pc = "info_fetch"
  /\ Quiet
  /\ UNCHANGED issued
  /\ LET after == InfoFailureSession(status, authState, store) IN
       /\ authState' = after.as
       /\ store' = after.st
       /\ calls' = [calls EXCEPT ![c] =
            Done([Owe(@, authState, after.as, IsAuthFailure(status))
                    EXCEPT !.got401 = IsAuthFailure(status)],
                 InfoResult(status))]
  /\ UNCHANGED <<config, encKey, now, mgrs, devMgr, authFlowMgr, curDevFlow,
                 curAuthFlow>>

\* getPlayerInfo(): the player-info request is answered
PlayerInfoRespond(c) ==
  \E status \in PlayerInfoStatuses : PlayerInfoAnswered(c, status)

\* PlayKitSDK.initialize() is called: it calls authManager.initialize()
SdkInitializeCall(c) ==
  /\ FreeSlot(c)
  /\ IF config.initialized
     THEN /\ UNCHANGED issued
          /\ calls' = [calls EXCEPT ![c] =
               Done([NoCall EXCEPT !.op = "sdkInitialize"], OkRes(0))]
          /\ UNCHANGED <<config, encKey, now, authState, store, mgrs, devMgr,
                         authFlowMgr, curDevFlow, curAuthFlow>>
     ELSE InitializeEnter(c, [NoCall EXCEPT !.sdk = "auth"])

\* PlayKitSDK.initialize() returns or throws: the outer catch rethrows
SdkSettle(c, cr, res, cf, as, st) ==
  /\ calls' = [calls EXCEPT ![c] =
       Done([cr EXCEPT !.op = "sdkInitialize", !.sdk = ""], res)]
  /\ config' = cf
  /\ authState' = as
  /\ store' = st
  /\ UNCHANGED <<mgrs, devMgr, authFlowMgr, curDevFlow, curAuthFlow>>

\* await this.playerClient.getPlayerInfo() inside initialize(), at stage
SdkValidate(c, cr, stage, cf, as, st) ==
  /\ calls' = [calls EXCEPT ![c] =
       InfoEnter([cr EXCEPT !.sdk = stage, !.checks = cr.checks + 1], as)]
  /\ config' = cf
  /\ authState' = as
  /\ store' = st
  /\ UNCHANGED <<mgrs, devMgr, authFlowMgr, curDevFlow, curAuthFlow>>

\* await this.authManager.startAuthFlow(method) after a failed validation
SdkLogin(c, cr, cf, as, st) ==
  /\ AuthFlowStart(c, [cr EXCEPT !.sdk = "login", !.logins = cr.logins + 1],
                   IF cf.authMethod = "" THEN "device" ELSE cf.authMethod)
  /\ config' = cf
  /\ authState' = as
  /\ store' = st

\* clearDeveloperToken(): the session afterwards
ClearDeveloperToken(as) ==
  IF as.tokenType = "developer" THEN NoAuth ELSE as

\* handleDeveloperTokenFailure: willFallback
WillFallback(cf) == cf.fallback /\ cf.hasWindow /\ cf.mode # "server"

\* a faulty handler that logs in again whenever the validation fails
SecondFailureRetries(c, cr) ==
  SdkLogin(c, Owe(cr, authState, LogoutState, TRUE), config, LogoutState,
           ClearAuthState(store, GameId))

\* the getPlayerInfo after the new login failed: initialize() rejects
SecondFailure(c, cr) ==
  SdkSettle(c, cr, cr.res, config, authState, store)

\* the first getPlayerInfo of initialize() failed
FirstFailure(c, cr) ==
  IF cr.dev
  THEN LET cf == [config EXCEPT !.developerToken =
                    IF authState.tokenType = "developer" THEN 0 ELSE @]
           as == ClearDeveloperToken(authState)
           cr1 == Owe(cr, authState, as, FALSE)
       IN IF WillFallback(config)
          THEN SdkLogin(c, cr1, cf, as, store)
          ELSE SdkSettle(c, cr1, ErrRes("DEVELOPER_TOKEN_INVALID"), cf, as, store)
  ELSE LET cr1 == Owe(cr, authState, LogoutState, TRUE)
       IN IF config.hasWindow
          THEN SdkLogin(c, cr1, config, LogoutState,
                        ClearAuthState(store, GameId))
          ELSE SdkSettle(c, cr1, ErrRes("VALIDATION_FAILED"), config,
                         LogoutState, ClearAuthState(store, GameId))

\* PlayKitSDK.initialize() goes on after a call it awaited has settled
SdkResume(c) ==
  /\ calls[c].pc = "done"
  /\ calls[c].sdk # ""
  /\ UNCHANGED <<encKey, now, issued>>
  /\ LET cr == [calls[c] EXCEPT !.init = FALSE, !.got401 = FALSE]
         ok == cr.res.kind = "ok"
     IN CASE cr.sdk = "auth" ->
               IF ~ok THEN SdkSettle(c, cr, cr.res, config, authState, store)
               ELSE LET cf == [config EXCEPT !.initialized = TRUE]
                        cr1 == [cr EXCEPT !.dev = authState.tokenType = "developer"]
                    IN IF IsAuthenticated(authState)
                       THEN SdkValidate(c, cr1, "check", cf, authState, store)
                       ELSE SdkSettle(c, cr1, OkRes(0), cf, authState, store)
          [] cr.sdk = "check" ->
               IF ok THEN SdkSettle(c, cr, OkRes(0), config, authState, store)
               ELSE FirstFailure(c, cr)
          [] cr.sdk = "login" ->
               IF ok THEN SdkValidate(c, cr, "recheck", config, authState, store)
               ELSE SdkSettle(c, cr, cr.res, config, authState, store)
          [] cr.sdk = "recheck" ->
               IF ok THEN SdkSettle(c, cr, OkRes(0), config, authState, store)
               ELSE SecondFailure(c, cr)

\* --------------------------------------------------------- specifications
\* pacing: the server paces its clients (poll_interval fields, slow_down
\* answers) and callers pass their own poll interval
\* a config without tokens; developerToken, playerToken: 0 = absent;
\* fallback: developerTokenFallback.enabled; initialized: PlayKitSDK's flag;
\* platformToken is what the page holds for detectPlatformToken (0 = nothing);
\* authMethod "" = absent; sloppy: the server may answer 200 with a body
\* that lacks the token fields
BaseConfig(m, w, p) ==
  [mode |-> m, hasWindow |-> w, pacing |-> p, developerToken |-> 0,
   playerToken |-> 0, playerJWT |-> FALSE, platformToken |-> 0,
   autoDetectPlatformToken |-> TRUE, authMethod |-> "", sloppy |-> FALSE,
   fallback |-> TRUE, initialized |-> FALSE]

Configs ==
  {BaseConfig("browser", TRUE, p) : p \in BOOLEAN}
  \cup {BaseConfig("browser", FALSE, p) : p \in BOOLEAN}
  \cup {BaseConfig("server", FALSE, FALSE)}

\* a record another game of the same origin left in the backing store
OtherRecord ==
  [isAuthenticated |-> TRUE, token |-> 1, tokenType |-> "player",
   expiresAt |-> 9, refreshToken |-> 0, refreshExpiresAt |-> 0]

\* the state after  new AuthManager(config)  with the session as and its
\* persisted record
InitWith(cfgs, sessions) ==
  /\ config \in cfgs
  /\ encKey \in BOOLEAN
  /\ now = 1
  /\ authState \in sessions
  /\ store = [g \in GameIds |->
                IF g # GameId THEN OtherRecord
                ELSE IF authState.isAuthenticated THEN authState ELSE Absent]
  /\ calls = [c \in Calls |-> NoCall]
  /\ mgrs = [c \in Calls |-> NoMgr]
  /\ devMgr = 0
  /\ authFlowMgr = 0
  /\ curDevFlow = 0
  /\ curAuthFlow = 0
  /\ issued = IF authState.isAuthenticated THEN 1 ELSE 0

\* the session: an AuthManager that is logged out or holds a freshly
\* installed session; refreshToken, ensureValidToken and logout interleave
Init ==
  InitWith({cf \in Configs : cf.hasWindow = (cf.mode = "browser") /\ ~cf.pacing},
           {NoAuth} \cup InstalledSessions(0))

Next ==
  \/ Tick
  \/ Return
  \/ Logout
  \/ \E c \in Calls :
       \/ RefreshTokenCall(c)
       \/ EnsureValidTokenCall(c)
       \/ RefreshRespond(c)
       \/ RefreshSaveDone(c)

Spec == Init /\ [][Next]_vars

\* the same session against a server whose 200 answers may lack the tokens
SloppyInit ==
  InitWith({[BaseConfig("browser", TRUE, FALSE) EXCEPT !.sloppy = TRUE]},
           {NoAuth} \cup InstalledSessions(0))

SloppySpec == SloppyInit /\ [][Next]_vars

\* the login flows, from a freshly constructed AuthManager
FlowInit ==
  InitWith({cf \in Configs : cf.mode = "browser" /\ ~cf.pacing}, {NoAuth})

\* startDeviceAuthFlow alone, with cancellation and the passing of time
DedupNext ==
  \/ Tick
  \/ Return
  \/ CancelDeviceAuthFlow
  \/ \E c \in Calls :
       \/ StartDeviceAuthFlowCall(c)
       \/ InitiateRespond(c)
       \/ UserClickLogin(c)
       \/ PollTimerFire(c)
       \/ PollRespond(c)
       \/ FlowSaveDone(c)

DedupSpec == FlowInit /\ [][DedupNext]_vars

\* every entry point that drives a DeviceAuthFlowManager
FlowNext ==
  \/ Return
  \/ CancelDeviceAuthFlow
  \/ \E c \in Calls :
       \/ StartDeviceAuthFlowCall(c)
       \/ StartAuthFlowWith(c, "device")
       \/ InitiateRespond(c)
       \/ UserClickLogin(c)
       \/ PollTimerFire(c)
       \/ PollRespond(c)
       \/ FlowSaveDone(c)
       \/ PollDeviceAuthCall(c)
       \/ InitiateDeviceAuthCall(c)
       \/ InitAuthRespond(c)

FlowSpec == FlowInit /\ [][FlowNext]_vars

\* the poll loops of startFlow and pollForToken against a server that paces
\* its clients
BackoffInit ==
  InitWith({cf \in Configs : cf.mode = "browser" /\ ~cf.hasWindow /\ cf.pacing},
           {NoAuth})

BackoffNext ==
  \/ Return
  \/ \E c \in Calls :
       \/ StartDeviceAuthFlowCall(c)
       \/ PollDeviceAuthCall(c)
       \/ InitiateRespond(c)
       \/ PollTimerFire(c)
       \/ PollRespond(c)
       \/ FlowSaveDone(c)

BackoffSpec == BackoffInit /\ [][BackoffNext]_vars

\* the same two poll loops against a server that leaves the interval alone
PollInit ==
  InitWith({cf \in Configs : cf.mode = "browser" /\ ~cf.hasWindow /\ ~cf.pacing},
           {NoAuth})

PollSpec == PollInit /\ [][BackoffNext]_vars

\* initialize() on a new AuthManager, one call at a time: what is
\* configured, what the page holds, what an earlier run left in the store
StartupConfigs ==
  {[cf EXCEPT !.developerToken = d, !.playerToken = p, !.playerJWT = j,
              !.platformToken = IF cf.hasWindow THEN t ELSE 0,
              !.autoDetectPlatformToken = (a \/ ~cf.hasWindow \/ t = 0),
              !.authMethod = IF d = 0 /\ p = 0 /\ ~j THEN m ELSE ""] :
     cf \in {b \in Configs : ~b.pacing},
     d \in {0, DeveloperToken}, p \in {0, PlayerToken}, j \in BOOLEAN,
     t \in {0, PlatformToken}, a \in BOOLEAN, m \in {"", "headless"}}

\* the MemoryStorage of server mode starts empty; the server has issued
\* one token set before
StartupInit ==
  /\ config \in StartupConfigs
  /\ encKey \in BOOLEAN
  /\ now = 1
  /\ authState = NoAuth
  /\ \E rec \in {Absent} \cup (IF config.mode = "server" THEN {}
                               ELSE InstalledSessions(0) \cup InstalledSessions(1)) :
       /\ store = [g \in GameIds |-> IF g # GameId THEN OtherRecord ELSE rec]
       /\ issued = 1
  /\ calls = [c \in Calls |-> NoCall]
  /\ mgrs = [c \in Calls |-> NoMgr]
  /\ devMgr = 0
  /\ authFlowMgr = 0
  /\ curDevFlow = 0
  /\ curAuthFlow = 0

StartupNext ==
  \/ Tick
  \/ Return
  \/ \E c \in Calls :
       \/ (\A d \in Calls : calls[d].pc = "idle") /\ InitializeCall(c)
       \/ InitializeResume(c)
       \/ RefreshRespond(c)
       \/ RefreshSaveDone(c)
       \/ InitiateRespond(c)
       \/ UserClickLogin(c)
       \/ PollTimerFire(c)
       \/ PollRespond(c)
       \/ FlowSaveDone(c)
       \/ UiSuccess(c)
       \/ JwtRespond(c)

StartupSpec == StartupInit /\ [][StartupNext]_vars

\* a TokenStorage over a backing store that holds what earlier runs and
\* other code of the page left there
StorageInit ==
  /\ config \in {cf \in Configs : ~cf.pacing}
  /\ encKey \in BOOLEAN
  /\ now = 1
  /\ authState = NoAuth
  /\ \E mine \in {NoItem} \cup
                  {it \in UNION {{PlainItem(as), CipherItem(as, "own"),
                                  CipherItem(as, "old")} :
                                   as \in InstalledSessions(0)} :
                     TRUE} :
       store = [k \in StoreKeys |->
                  IF k = GameId THEN mine
                  ELSE IF k = OtherGameId THEN PlainItem(OtherRecord)
                  ELSE IF k = EncryptionKeyName THEN KeyItem
                  ELSE PlainItem(NoAuth)]
  /\ calls = [c \in Calls |-> NoCall]
  /\ mgrs = [c \in Calls |-> NoMgr]
  /\ devMgr = 0
  /\ authFlowMgr = 0
  /\ curDevFlow = 0
  /\ curAuthFlow = 0
  /\ issued = 1

StorageNext ==
  \/ Tick
  \/ Return
  \/ SaveAuthStateCall
  \/ Damage
  \/ ClearAllCall
  \/ InitializeStorage
  \/ \E c \in Calls : LoadAuthStateCall(c)

StorageSpec == StorageInit /\ [][StorageNext]_vars

\* TokenStorage instances, one after the other, over a backing store that
\* starts without any SDK key; nothing else writes to the store
KeyInit ==
  /\ config \in {cf \in Configs : ~cf.pacing /\ cf.mode = "browser"}
  /\ encKey = FALSE
  /\ now = 1
  /\ authState = NoAuth
  /\ store = [k \in StoreKeys |->
                IF k = ForeignKey THEN PlainItem(NoAuth) ELSE NoItem]
  /\ calls = [c \in Calls |-> NoCall]
  /\ mgrs = [c \in Calls |-> NoMgr]
  /\ devMgr = 0
  /\ authFlowMgr = 0
  /\ curDevFlow = 0
  /\ curAuthFlow = 0
  /\ issued = 1

KeyNext ==
  \/ Tick
  \/ Return
  \/ NewTokenStorage
  \/ InitializeStorage
  \/ SaveAuthStateCall
  \/ ClearAuthStateCall
  \/ ClearAllCall
  \/ \E c \in Calls : LoadAuthStateCall(c)

KeySpec == KeyInit /\ [][KeyNext]_vars

\* PlayKitSDK.initialize() under every source of a token, the server
\* answering each request as it likes
SdkConfigs ==
  {[cf EXCEPT !.developerToken = d, !.playerToken = p, !.fallback = f,
              !.authMethod = IF d = 0 /\ p = 0 THEN "" ELSE m] :
     cf \in {b \in Configs : ~b.pacing},
     d \in {0, DeveloperToken}, p \in {0, PlayerToken}, f \in BOOLEAN,
     m \in {"", "headless"}}

SdkInit ==
  /\ config \in {cf \in SdkConfigs : cf.developerToken = 0 \/ cf.playerToken = 0}
  /\ encKey \in BOOLEAN
  /\ now = 1
  /\ authState = NoAuth
  /\ \E rec \in {Absent} \cup (IF config.mode = "server" THEN {}
                               ELSE InstalledSessions(0)) :
       /\ store = [g \in GameIds |-> IF g # GameId THEN OtherRecord ELSE rec]
       /\ issued = 1
  /\ calls = [c \in Calls |-> NoCall]
  /\ mgrs = [c \in Calls |-> NoMgr]
  /\ devMgr = 0
  /\ authFlowMgr = 0
  /\ curDevFlow = 0
  /\ curAuthFlow = 0

SdkNext ==
  \/ Tick
  \/ Return
  \/ \E c \in Calls :
       \/ (\A d \in Calls : calls[d].pc = "idle") /\ SdkInitializeCall(c)
       \/ (\A d \in Calls : calls[d].pc = "idle") /\ GetPlayerInfoCall(c)
       \/ SdkResume(c)
       \/ PlayerInfoRespond(c)
       \/ InitializeResume(c)
       \/ RefreshRespond(c)
       \/ RefreshSaveDone(c)
       \/ InitiateRespond(c)
       \/ UserClickLogin(c)
       \/ PollTimerFire(c)
       \/ PollRespond(c)
       \/ FlowSaveDone(c)
       \/ UiSuccess(c)
       \/ JwtRespond(c)

SdkSpec == SdkInit /\ [][SdkNext]_vars

\* PlayKitSDK.initialize() called again while an earlier call is running,
\* without configured tokens: a player JWT or a stored session or a login
OverlapInit ==
  /\ config \in {[cf EXCEPT !.playerJWT = j] :
                   cf \in {b \in Configs : ~b.pacing /\ b.mode = "browser"},
                   j \in BOOLEAN}
  /\ encKey \in BOOLEAN
  /\ now = 1
  /\ authState = NoAuth
  /\ \E rec \in {Absent} \cup InstalledSessions(0) :
       /\ store = [g \in GameIds |-> IF g # GameId THEN OtherRecord ELSE rec]
       /\ issued = 1
  /\ calls = [c \in Calls |-> NoCall]
  /\ mgrs = [c \in Calls |-> NoMgr]
  /\ devMgr = 0
  /\ authFlowMgr = 0
  /\ curDevFlow = 0
  /\ curAuthFlow = 0

OverlapNext ==
  \/ Return
  \/ \E c \in Calls :
       \/ SdkInitializeCall(c)
       \/ SdkResume(c)
       \/ PlayerInfoRespond(c)
       \/ InitializeResume(c)
       \/ RefreshRespond(c)
       \/ RefreshSaveDone(c)
       \/ InitiateRespond(c)
       \/ UserClickLogin(c)
       \/ PollTimerFire(c)
       \/ PollRespond(c)
       \/ FlowSaveDone(c)
       \/ JwtRespond(c)

OverlapSpec == OverlapInit /\ [][OverlapNext]_vars

\* the device flows of DedupSpec on an event loop that runs: time passes,
\* every request is answered, every armed timer fires, every awaited save
\* settles, settled promises reach their callers, and a user who is shown
\* the login button clicks it
FairDedupSpec ==
  /\ DedupSpec
  /\ WF_vars(Tick)
  /\ WF_vars(Return)
  /\ \A c \in Calls :
       /\ WF_vars(InitiateRespond(c))
       /\ WF_vars(UserClickLogin(c))
       /\ WF_vars(PollTimerFire(c))
       /\ WF_vars(PollRespond(c))
       /\ WF_vars(FlowSaveDone(c))

\* one poll loop at a time (startDeviceAuthFlow or pollDeviceAuth), with
\* time passing
TimedPollNext ==
  \/ Tick
  \/ Return
  \/ \E c \in Calls :
       \/ (\A d \in Calls : calls[d].pc = "idle") /\ StartDeviceAuthFlowCall(c)
       \/ (\A d \in Calls : calls[d].pc = "idle") /\ PollDeviceAuthCall(c)
       \/ InitiateRespond(c)
       \/ PollTimerFire(c)
       \/ PollRespond(c)
       \/ FlowSaveDone(c)

\* ... on an event loop that runs: time passes, every request is answered,
\* every armed timer fires, every awaited save settles
FairPollSpec ==
  /\ PollInit
  /\ [][TimedPollNext]_vars
  /\ WF_vars(Tick)
  /\ WF_vars(Return)
  /\ \A c \in Calls :
       /\ WF_vars(InitiateRespond(c))
       /\ WF_vars(PollTimerFire(c))
       /\ WF_vars(PollRespond(c))
       /\ WF_vars(FlowSaveDone(c))

\* one poll loop at a time against a server that paces its clients, with
\* time passing
TimedBackoffSpec == BackoffInit /\ [][TimedPollNext]_vars

\* exchangeJWT calls, overlapping each other and logout
ExchangeNext ==
  \/ Tick
  \/ Return
  \/ Logout
  \/ \E c \in Calls :
       \/ ExchangeJWTCall(c)
       \/ JwtRespond(c)
       \/ FlowSaveDone(c)

ExchangeSpec == FlowInit /\ [][ExchangeNext]_vars

\* the providers on top of an installed session, one request at a time
ApiNext ==
  \/ Tick
  \/ Return
  \/ \E c \in Calls :
       \/ (\A d \in Calls : calls[d].pc = "idle") /\ ProviderCall(c)
       \/ RefreshRespond(c)
       \/ RefreshSaveDone(c)
       \/ ApiRespond(c)

ApiSpec == Init /\ [][ApiNext]_vars

\* ------------------------------------------------------------- claims
\* C1: overlapping startDeviceAuthFlow calls share one flow.  While any of
\* them is in flight exactly one has sent the initiate request and every
\* other waits on that one; when one of them has settled, all of them have
\* settled, with the identical result or error.
C1_OneInitiateSameResult ==
  LET S == {c \in Calls : calls[c].op = "startDeviceAuthFlow"}
      live == {c \in S : calls[c].pc # "done"}
  IN /\ live # {} =>
          /\ Cardinality({c \in live : calls[c].sentInit = 1}) = 1
          /\ \A c \in live :
               calls[c].sentInit = 0 =>
                 /\ calls[c].pc = "joined"
                 /\ calls[c].join \in live
                 /\ calls[calls[c].join].sentInit = 1
     /\ \A c, d \in S :
          calls[c].pc = "done" =>
            calls[d].pc = "done" /\ calls[d].res = calls[c].res

\* two overlapping startDeviceAuthFlow calls have settled with the same tokens
C1_Witness ==
  \E c, d \in Calls :
    /\ c # d
    /\ calls[c].op = "startDeviceAuthFlow" /\ calls[c].pc = "done"
    /\ calls[d].op = "startDeviceAuthFlow" /\ calls[d].pc = "done"
    /\ calls[c].res.kind = "ok" /\ calls[d].res = calls[c].res

\* C2: overlapping ensureValidToken calls send one refresh request, so two
\* of them never have a refresh request outstanding at the same time.
C2_OneRefreshRequest ==
  Cardinality({c \in Calls : /\ calls[c].op = "ensureValidToken"
                             /\ calls[c].pc = "refresh_fetch"}) <= 1

\* C3, in the case of the 401 answer it names: an ensureValidToken call
\* whose refresh was answered 401 when the token it was asked to validate
\* had expired raises.
C3_RaisesWhenExpired ==
  \A c \in Calls :
    (/\ calls[c].op = "ensureValidToken"
     /\ calls[c].pc = "done"
     /\ calls[c].got401
     /\ calls[c].rfail = "expired") => calls[c].res.kind = "err"

\* C4 as stated: in every configuration, ensureValidToken raises for an
\* authenticated session whose token is expired and cannot be refreshed.
C4_AlwaysRaises ==
  \A c \in Calls :
    (/\ calls[c].op = "ensureValidToken"
     /\ calls[c].pc = "done"
     /\ calls[c].unref) => calls[c].res.kind = "err"

\* C4, amended: outside server mode, ensureValidToken raises TOKEN_EXPIRED
\* for an authenticated session whose token is expired and cannot be
\* refreshed.
C4_RaisesOutsideServerMode ==
  \A c \in Calls :
    (/\ config.mode # "server"
     /\ calls[c].op = "ensureValidToken"
     /\ calls[c].pc = "done"
     /\ calls[c].unref) => calls[c].res = ErrRes("TOKEN_EXPIRED")

\* a browser-mode ensureValidToken call met an expired, unrefreshable token
C4_Witness ==
  \E c \in Calls :
    /\ config.mode = "browser"
    /\ calls[c].op = "ensureValidToken"
    /\ calls[c].pc = "done"
    /\ calls[c].unref
    /\ calls[c].res.kind = "err"

\* C5: when a refresh that was answered 401 settles, the session is
\* unauthenticated and the game id has no stored record; a refreshToken()
\* call raises REFRESH_TOKEN_INVALID only in that state.
C5_InvalidRefreshClearsSession ==
  \A c \in Calls :
    (calls[c].pc = "done" /\ calls[c].got401) =>
      /\ ~IsAuthenticated(authState)
      /\ authState = LogoutState
      /\ store[GameId] = Absent
      /\ calls[c].op = "refreshToken" =>
           calls[c].res = ErrRes("REFRESH_TOKEN_INVALID")

\* a refreshToken() call was answered 401 and has raised
C5_Witness ==
  \E c \in Calls :
    /\ calls[c].op = "refreshToken"
    /\ calls[c].pc = "done"
    /\ calls[c].got401
    /\ calls[c].res.kind = "err"

\* C6: the step in which a refreshToken() call raises for a reason other
\* than a 401 answer changes neither the session nor the stored records.
C6_FailureKeepsState ==
  [][\A c \in Calls :
       (/\ calls[c].pc # "done"
        /\ calls'[c].pc = "done"
        /\ calls'[c].op = "refreshToken"
        /\ calls'[c].res.kind = "err"
        /\ ~calls'[c].got401) => (authState' = authState /\ store' = store)]_vars

\* C7: when a refreshToken() call returns its new token set, the session
\* holds that token set and the stored record equals the session.
C7_BothHoldNewTokens ==
  \A c \in Calls :
    (/\ calls[c].op = "refreshToken"
     /\ calls[c].pc = "done"
     /\ calls[c].res.kind = "ok") =>
      /\ authState.isAuthenticated
      /\ authState.token = calls[c].res.tok
      /\ store[GameId] = authState

\* C8: a provider method that has read the token for its request has
\* awaited ensureValidToken before.
C8_EnsureBeforeRead ==
  \A c \in Calls :
    (calls[c].op \in ProviderMethods /\ calls[c].tokRead # 0) =>
      calls[c].ensured

\* C9: at most one device-authorization session (opened by its own initiate
\* request) is being driven at any time.
C9_OneDeviceSession ==
  Cardinality({c \in Calls :
                 /\ calls[c].sentInit = 1
                 /\ calls[c].pc \in {"init_fetch", "initauth_fetch", "modal",
                                     "poll_fetch", "poll_timer"}}) <= 1

\* C10: a poll loop that was outstanding when cancel() ran is not left
\* unsettled with nothing to settle it, and does not settle by resolving
\* with tokens.
C10_CancelRejects ==
  \A c \in Calls :
    calls[c].cancelled =>
      /\ calls[c].pc # "hung"
      /\ calls[c].pc = "done" => calls[c].res.kind = "err"

\* C11: no poll request is sent once the expiry window the server declared
\* for the session has elapsed.
C11_NoPollAfterExpiry ==
  [][\A c \in Calls :
       (/\ calls[c].pc # "poll_fetch"
        /\ calls'[c].pc = "poll_fetch"
        /\ calls'[c].sessExp # 0) => now < calls'[c].sessExp]_vars

\* C13: access_denied and expired_token answers reject the flow, which is
\* then over (no poll timer armed, no request in flight); any other error
\* answer rejects it with the code and the description the server sent.
C13_TerminalPollErrors ==
  [][\A c \in Calls : \A a \in PollAnswers(issued) :
       (/\ calls[c].pc = "poll_fetch"
        /\ calls'[c].pc # "poll_fetch"
        /\ a.kind \in {"access_denied", "expired_token", "error"}
        /\ PollAnswered(c, a)) =>
         /\ calls'[c].pc = "done"
         /\ calls'[c].res.kind = "err"
         /\ (a.kind = "error" /\ a.err # "") => calls'[c].res.code = a.err
         /\ (a.kind = "error" /\ a.desc # "") => calls'[c].res.msg = a.desc]_vars

C13_Witness ==
  \E c \in Calls :
    /\ calls[c].pc = "done"
    /\ calls[c].op \in {"startDeviceAuthFlow", "pollDeviceAuth"}
    /\ calls[c].res = ErrResWith("server_error", "unavailable")

\* C14: a login flow that rejects leaves the session as it was before the
\* call; in particular the session does not hold the tokens the rejected
\* call obtained.
C14_RejectLeavesSession ==
  [][\A c \in Calls :
       (/\ calls[c].op \in {"startAuthFlow", "startDeviceAuthFlow"}
        /\ calls[c].pc = "flow_save"
        /\ calls'[c].pc = "done"
        /\ calls'[c].res.kind = "err") =>
         /\ authState'.token # calls[c].snap.token
         /\ store'[GameId] # calls[c].snap]_vars

\* C15: initialize() takes the first source that applies, in the order
\* developer token, player token, unexpired stored session, refresh of the
\* expired stored session, JWT exchange, platform token; a source that has
\* produced an authenticated session ends the call, and the call goes on to
\* a later source or to a login flow only without such a session.
C15_FirstSourceWins ==
  [][\A c \in Calls :
       LET saved == store[GameId]
           EndsWith(tok) ==
             /\ calls'[c].pc = "done" /\ calls'[c].res.kind = "ok"
             /\ IsAuthenticated(authState') /\ authState'.token = tok
             /\ curAuthFlow' = 0 /\ devMgr' = 0 /\ authFlowMgr' = 0
       IN /\ (calls[c].pc = "idle" /\ calls'[c].init) =>
               IF config.developerToken # 0 THEN EndsWith(config.developerToken)
               ELSE IF config.playerToken # 0 THEN EndsWith(config.playerToken)
               ELSE IF SavedStillValid(saved, now)
               THEN EndsWith(saved.token) /\ authState' = saved
               ELSE IF saved.token # 0 /\ config.mode # "server"
                       /\ CanRefresh(saved, now)
               THEN calls'[c].pc = "refresh_fetch" /\ curAuthFlow' = 0
               ELSE IF config.playerJWT
               THEN calls'[c].pc = "jwt_fetch" /\ curAuthFlow' = 0
               ELSE (/\ config.hasWindow /\ config.autoDetectPlatformToken
                     /\ config.platformToken # 0) =>
                      EndsWith(config.platformToken)
          /\ (calls[c].op = "initialize" /\ calls[c].pc # "done"
              /\ calls'[c].pc \in {"jwt_fetch", "init_fetch", "ui_wait"}) =>
               ~(IsAuthenticated(authState) /\ ~IsTokenExpired(authState, now))
     ]_vars

\* initialize() without a configured token finds a stored session whose
\* access token is expired and whose refresh token is still valid
C16_ExpiredRefreshable(c) ==
  /\ calls[c].pc = "idle" /\ calls'[c].init
  /\ config.developerToken = 0 /\ config.playerToken = 0
  /\ config.mode # "server"
  /\ store[GameId].token # 0
  /\ ~(store[GameId].expiresAt # 0 /\ now < store[GameId].expiresAt)
  /\ CanRefresh(store[GameId], now)

\* the refresh request of an initialize() call goes out when the call starts
C16_RefreshOnlyAtStart(c) ==
  (/\ calls'[c].init
   /\ calls[c].pc # "refresh_fetch"
   /\ calls'[c].pc = "refresh_fetch") => calls[c].pc = "idle"

C17_LoginLeavesValidSession ==
  \A c \in Calls :
    (/\ calls[c].init /\ calls[c].op = "startAuthFlow"
     /\ config.authMethod = ""
     /\ calls[c].pc = "done" /\ calls[c].res.kind = "ok"
     /\ Lifetime(calls[c].res.tok) > MaxTime) =>
      /\ IsAuthenticated(authState)
      /\ authState.token = calls[c].res.tok
      /\ ~IsTokenExpired(authState, now)
      /\ store[GameId] # Absent
      /\ store[GameId] = authState

\* initialize() found nothing stored and has resolved through the device
\* flow after some time
C17_Witness ==
  \E c \in Calls :
    /\ calls[c].init /\ calls[c].op = "startAuthFlow"
    /\ config.authMethod = "" /\ config.mode = "browser"
    /\ calls[c].pc = "done" /\ calls[c].res.kind = "ok"
    /\ Lifetime(calls[c].res.tok) > MaxTime
    /\ authState.refreshExpiresAt > authState.expiresAt
    /\ now > 1

\* C18: in server mode with nothing stored and no token configured,
\* initialize() rejects with NOT_AUTHENTICATED at once: no request is in
\* flight, no flow manager exists and the session is untouched.
C18_ServerModeRejects ==
  [][\A c \in Calls :
       (/\ calls[c].pc = "idle" /\ calls'[c].init
        /\ config.mode = "server"
        /\ store[GameId].token = 0
        /\ config.developerToken = 0 /\ config.playerToken = 0
        /\ ~config.playerJWT) =>
         /\ calls'[c].pc = "done"
         /\ calls'[c].res = ErrRes("NOT_AUTHENTICATED")
         /\ authState' = authState
         /\ devMgr' = 0 /\ authFlowMgr' = 0 /\ curAuthFlow' = 0
         /\ issued' = issued]_vars

C18_Witness ==
  \E c \in Calls :
    /\ config.mode = "server"
    /\ calls[c].op = "initialize" /\ calls[c].pc = "done"
    /\ calls[c].res = ErrRes("NOT_AUTHENTICATED")
    /\ store[GameId] = Absent /\ ~IsAuthenticated(authState)

C20_LogoutClearsThisGameOnly ==
  [][Logout =>
       /\ ~IsAuthenticated(authState')
       /\ authState'.token = 0 /\ authState'.refreshToken = 0
       /\ store'[GameId] = Absent
       /\ \A g \in GameIds \ {GameId} : store'[g] = store[g]]_vars

\* a session was installed and is gone from memory and from the store, and
\* the other game's record is still there
C20_Witness ==
  /\ issued >= 1
  /\ ~IsAuthenticated(authState) /\ authState.token = 0
  /\ store[GameId] = Absent
  /\ store[OtherGameId] = OtherRecord
  /\ \A c \in Calls : ~calls[c].got401

\* C21: whenever isAuthenticated() is true the session holds an access token.
C21_AuthenticatedHasToken ==
  IsAuthenticated(authState) => authState.token # 0

C23_BadRecordIsNull ==
  \A c \in Calls :
    (/\ calls[c].op = "loadAuthState"
     /\ calls[c].pc = "done"
     /\ store[GameId] # NoItem
     /\ \/ ~store[GameId].intact
        \/ ~Parses(store[GameId])
        \/ encKey /\ ~(store[GameId].kind = "cipher" /\ store[GameId].key = "own"))
    => /\ calls[c].res.kind = "ok"
       /\ calls[c].snap = Absent

\* C24: clearAll() removes the session records of every game and the stored
\* encryption key, and leaves the page's own shared_token key as it was.
C24_ClearAllFrame ==
  [][ClearAllCall =>
       /\ \A g \in GameIds : store'[g] = NoItem
       /\ store'[EncryptionKeyName] = NoItem
       /\ store'[ForeignKey] = store[ForeignKey]]_vars

C24_Witness ==
  /\ store[GameId] = NoItem
  /\ store[OtherGameId] = NoItem
  /\ store[EncryptionKeyName] = NoItem
  /\ store[ForeignKey] # NoItem
  /\ encKey

\* C25: one PlayKitSDK.initialize() starts at most one login flow after a
\* failed validation and validates at most twice; when the validation after
\* the new login fails too, initialize() rejects with that failure.
C25_BoundedReauth ==
  /\ [](\A c \in Calls : calls[c].logins <= 1 /\ calls[c].checks <= 2)
  /\ [][\A c \in Calls :
          (/\ calls[c].pc = "done"
           /\ calls[c].sdk = "recheck"
           /\ calls[c].res.kind = "err"
           /\ calls'[c] # calls[c])
          => /\ calls'[c].op = "sdkInitialize"
             /\ calls'[c].pc = "done"
             /\ calls'[c].sdk = ""
             /\ calls'[c].res = calls[c].res
             /\ calls'[c].logins = 1]_vars

C25_Witness ==
  \E c \in Calls :
    /\ calls[c].op = "sdkInitialize"
    /\ calls[c].pc = "done"
    /\ calls[c].res.kind = "err"
    /\ calls[c].logins = 1
    /\ calls[c].checks = 2

\* C26: when the player-info request is answered 401 or 403, the session is
\* cleared (not authenticated, no token, no stored record) and getPlayerInfo
\* rejects with the authentication error.
C26_InfoAuthFailure ==
  [][\A c \in Calls : \A status \in {401, 403} :
       PlayerInfoAnswered(c, status) =>
         /\ ~IsAuthenticated(authState')
         /\ authState'.token = 0
         /\ store'[GameId] = Absent
         /\ calls'[c].pc = "done"
         /\ calls'[c].res = ErrRes("AUTH_FAILED")]_vars

C26_Witness ==
  \E c \in Calls :
    /\ calls[c].op = "getPlayerInfo"
    /\ calls[c].pc = "done"
    /\ calls[c].sdk = ""
    /\ calls[c].got401
    /\ calls[c].tokRead # 0
    /\ calls[c].res = ErrRes("AUTH_FAILED")
    /\ ~IsAuthenticated(authState)
    /\ store[GameId] = Absent

\* C27: a call that changed isAuthenticated has emitted 'authenticated' or
\* 'unauthenticated' after the change by the time it settles.
C27_ChangeHasEvent ==
  \A c \in Calls : Settled(c) => ~calls[c].owed

\* C28: when the exchange request of exchangeJWT is answered with a player
\* token, the session becomes that token, of type player, expiring at now
\* plus the lifetime the server gave or plus 24 hours when it gave none; and
\* when exchangeJWT then resolves, it has written that session to the store
\* and returns the token.
C28_ExchangeStores ==
  [][\A c \in Calls :
       /\ \A a \in JwtAnswers(issued) :
            (calls[c].op = "exchangeJWT" /\ a.ok /\ a.tok # 0
             /\ JwtAnswered(c, a))
            => /\ authState' =
                    [isAuthenticated |-> TRUE, token |-> a.tok,
                     tokenType |-> "player",
                     expiresAt |-> now + (IF a.expiresIn = 0
                                          THEN DefaultJwtLifetime
                                          ELSE a.expiresIn),
                     refreshToken |-> 0, refreshExpiresAt |-> 0]
               /\ calls'[c].pc \in {"flow_save", "done"}
               /\ calls'[c].pc = "flow_save" => calls'[c].snap = authState'
               /\ (calls'[c].pc = "done" /\ calls'[c].res.kind = "ok")
                    => /\ store'[GameId] = authState'
                       /\ calls'[c].res = OkRes(a.tok)
       /\ (/\ calls[c].op = "exchangeJWT"
           /\ calls[c].pc = "flow_save"
           /\ calls'[c].pc = "done"
           /\ calls'[c].res.kind = "ok")
          => /\ store'[GameId] = calls[c].snap
             /\ calls'[c].res = OkRes(calls[c].snap.token)]_vars

\* exchangeJWT has resolved with a token whose lifetime the server omitted
C28_Witness ==
  \E c \in Calls :
    /\ calls[c].op = "exchangeJWT"
    /\ calls[c].pc = "done"
    /\ calls[c].res.kind = "ok"
    /\ calls[c].res.tok = authState.token
    /\ authState.tokenType = "player"
    /\ authState.expiresAt > DefaultJwtLifetime
    /\ store[GameId] = authState

\* C29: a startDeviceAuthFlow call that was running when
\* cancelDeviceAuthFlow() was called eventually settles and no longer holds
\* the flow slot, so that a later startDeviceAuthFlow starts a flow of its
\* own.
C29_CancelledFlowSettles ==
  \A c \in Calls :
    (/\ calls[c].op = "startDeviceAuthFlow"
     /\ calls[c].pc \notin {"idle", "done"}
     /\ calls[c].mgr # 0
     /\ mgrs[calls[c].mgr].aborted)
    ~> (calls[c].pc \in {"idle", "done"} /\ curDevFlow # c)

\* C30: every poll loop whose deadline lies within the time the clock
\* covers eventually settles its promise, whatever the server answers.
C30_PollLoopSettles ==
  \A c \in Calls :
    (/\ calls[c].pc \in {"poll_fetch", "poll_timer"}
     /\ calls[c].deadline # 0
     /\ calls[c].deadline <= MaxTime)
    ~> (calls[c].pc \in {"idle", "done"})

\* C31: when a refreshToken() call is answered 401 for a refresh token that
\* an overlapping, successful refreshToken() call has superseded, the session
\* and the stored record that the successful call installed stay as they are.
C31_StaleRefreshKeepsSession ==
  [][\A c \in Calls :
       (/\ calls[c].op = "refreshToken"
        /\ calls[c].pc = "refresh_fetch"
        /\ calls'[c].got401
        /\ IsAuthenticated(authState)
        /\ authState.refreshToken # calls[c].sentRt
        /\ store[GameId] = authState)
       => (authState' = authState /\ store' = store)]_vars

\* C32: after logout() has returned, a refresh that was in flight when it
\* was called (its request carries a refresh token the session no longer
\* holds) does not make isAuthenticated() true again and stores no record.
C32_LogoutStays ==
  [][\A c \in Calls :
       (/\ calls[c].pc = "refresh_fetch"
        /\ calls[c].sentRt # 0
        /\ authState = LogoutState
        /\ store[GameId] = Absent
        /\ calls'[c] # calls[c])
       => (~IsAuthenticated(authState') /\ store'[GameId] = Absent)]_vars

\* C33: a failed fetch or parse of a poll request does not settle the flow:
\* the timer is armed again with the interval and the deadline the loop had;
\* and when that timer fires, the loop rejects with EXPIRED if the deadline
\* has passed and sends the next poll request otherwise.
C33_NetworkErrorRetries ==
  [][\A c \in Calls :
       /\ \A a \in PollAnswers(issued) :
            (a.kind = "neterr" /\ PollAnswered(c, a))
            => /\ calls'[c] = [calls[c] EXCEPT !.pc = "poll_timer",
                                               !.neterr = TRUE]
               /\ calls'[c].deadline = calls[c].deadline
               /\ PollInterval(calls'[c], mgrs') = PollInterval(calls[c], mgrs)
               /\ mgrs'[calls[c].mgr].pollTimeoutId = c
               /\ authState' = authState /\ store' = store
       /\ (/\ calls[c].neterr
           /\ ~mgrs[calls[c].mgr].aborted
           /\ PollTimerFire(c))
          => IF now >= calls[c].deadline
             THEN calls'[c].pc = "done" /\ calls'[c].res.code = "EXPIRED"
             ELSE /\ calls'[c].pc = "poll_fetch"
                  /\ calls'[c].deadline = calls[c].deadline]_vars

\* a poll loop that was slowed down waits on the timer its catch block armed
C33_Witness ==
  \E c \in Calls :
    /\ calls[c].pc = "poll_timer"
    /\ calls[c].neterr
    /\ PollInterval(calls[c], mgrs) > DefaultPollInterval
    /\ now >= calls[c].deadline

\* C34: a poll loop that was running when cancel() was called on its driver
\* sends no further poll request; right after cancel() no loop of the driver
\* waits on a poll timer; and a second cancel() right after the first would
\* change nothing.
C34_CancelStopsPolling ==
  [][/\ \A c \in Calls :
          (calls[c].cancelled /\ calls[c].pc # "poll_fetch")
          => calls'[c].pc # "poll_fetch"
     /\ CancelDeviceAuthFlow =>
          /\ \A c \in Calls :
               calls[c].mgr = devMgr => calls'[c].pc # "poll_timer"
          /\ CancelMgrs(mgrs', devMgr) = mgrs'
          /\ CancelCalls(calls', mgrs', devMgr) = calls']_vars

\* C35: when the answer to a poll request arrives for a flow that cancel()
\* was called on while the request was in flight, the flow does not resolve
\* with tokens and the session is not replaced.
C35_CancelledNeverResolves ==
  [][\A c \in Calls :
       (/\ calls[c].cancelled
        /\ calls[c].pc = "poll_fetch"
        /\ calls'[c] # calls[c])
       => /\ authState' = authState
          /\ calls'[c].pc # "flow_save"
          /\ ~(calls'[c].pc = "done" /\ calls'[c].res.kind = "ok")]_vars

\* C36: when AuthManager.initialize() has rejected, isAuthenticated() is
\* false and getToken() returns no token.
C36_RejectedInitNoSession ==
  \A c \in Calls :
    (calls[c].init /\ calls[c].pc = "done" /\ calls[c].res.kind = "err")
    => (~IsAuthenticated(authState) /\ authState.token = 0)

\* C37: whenever the backing store holds a record encrypted under the key of
\* the TokenStorage in use, it also holds that key, so that a TokenStorage
\* initialised later on the same store can decrypt the record.
C37_RecordHasKey ==
  \A g \in GameIds :
    (store[g].kind = "cipher" /\ store[g].key = "own")
    => store[EncryptionKeyName] = KeyItem

\* C38: when PlayKitSDK.initialize() has rejected, isInitialized() is false
\* (so that ensureInitialized keeps throwing NOT_INITIALIZED).
C38_RejectedStaysUninitialized ==
  \A c \in Calls :
    (/\ calls[c].op = "sdkInitialize"
     /\ calls[c].pc = "done"
     /\ calls[c].sdk = ""
     /\ calls[c].res.kind = "err")
    => ~config.initialized

\* C39: of the PlayKitSDK.initialize() calls that are resolving the startup
\* credential, at most one has a JWT exchange in flight, at most one has a
\* startup refresh in flight and at most one drives a login flow.
C39_StartupRunsOnce ==
  LET S == {c \in Calls : calls[c].sdk = "auth"}
  IN /\ Cardinality({c \in S : /\ calls[c].op = "exchangeJWT"
                                /\ calls[c].pc = "jwt_fetch"}) <= 1
     /\ Cardinality({c \in S : /\ calls[c].op = "initialize"
                                /\ calls[c].pc = "refresh_fetch"}) <= 1
     /\ Cardinality({c \in S : /\ calls[c].op = "startAuthFlow"
                                /\ calls[c].pc \notin {"joined", "done"}}) <= 1

\* C12: a slow_down answer never lowers the poll interval and leaves it at
\* 30 seconds or less.
C12_BackoffMonotone ==
  [][\A c \in Calls :
       (/\ calls[c].pc = "poll_fetch"
        /\ calls'[c].pc = "poll_timer"
        /\ calls'[c].slowed) =>
         /\ PollInterval(calls'[c], mgrs') >= PollInterval(calls[c], mgrs)
         /\ PollInterval(calls'[c], mgrs') <= MaxPollInterval]_vars

====
